---- MODULE Spec2Model ----
(***************************************************************************)
(* Model of the m3db-operator controller (pkg/controller/controller.go):   *)
(* the cluster reconcile tick (handleClusterUpdate), the two rate-limited  *)
(* work queues with their workers (Run, processClusterQueueItem,           *)
(* processPodQueueItem) and the pod tick (handlePodUpdate).                *)
(*                                                                         *)
(* The specifications that share the module:                               *)
(*   Spec       - one cluster's observed world and the cluster tick        *)
(*   SpecLive   - a valid cluster left to converge, ticks that keep coming *)
(*   SpecQueue  - Run, the informer callbacks, the queues and the workers  *)
(*   SpecPod    - the pods of a cluster and the pod tick                   *)
(*   SpecNotify - the informers' add, update and delete handlers and ticks *)
(*   SpecCache  - the informer cache's objects and the ticks' copies       *)
(*   SpecResize - the per-set loop body on every input                     *)
(*   SpecRequeue - the cluster workers, their ticks and the informers'     *)
(*                 reports of what the ticks wrote                         *)
(*   SpecSts    - the StatefulSet informer's handlers on every notification *)
(*   SpecEvent  - the workers' handlers for keys whose object may be gone   *)
(*   SpecGroups - a cluster whose list of isolation groups the user edits *)
(*   SpecMalformed - a cluster whose child sets somebody else edits        *)
(*                                                                         *)
(* The listers are modelled as returning the platform's current objects;   *)
(* a write the platform rejects because the lister was stale is one of the *)
(* failing calls a tick can draw (FailPoints).                             *)
(***************************************************************************)
EXTENDS Integers, Sequences, FiniteSets, TLC

\* ------------------------------------------------------------------ bounds

\* Largest numInstances a user writes into an isolation group.
MaxInstances == 2

\* nWorkers of Run: the worker goroutines started per queue.
NWorkers == 2

\* The number of times a pod is created under one name; each creation
\* gives it a new uid.
MaxUid == 2

\* The number of edits the user makes to a cluster that is left to converge.
MaxEdits == 2

\* The StatefulSet notifications an informer holds before its handler runs.
MaxPending == 2

\* ------------------------------------------------------------- the values

ClusterName == "cluster"

\* A StatefulSet without the isolation-group label: set.Labels has no
\* labels.IsolationGroup.
NoLabel == ""

\* set.Spec.Replicas == nil.
NilReplicas == -1

\* The isolation-group names users draw from, in the order sort.Sort
\* (myspec.IsolationGroups: by name) puts them.
NameOrder == <<"a", "b", "c">>

NameRank(n) == CHOOSE i \in 1..Len(NameOrder) : NameOrder[i] = n

\* The services ensureServices looks after, in the order it visits them.
ServiceNames == <<"headless", "coordinator">>

\* The DB namespaces a spec can declare or the DB can hold, in the order a
\* namespace listing returns them.
NamespaceOrder == <<"m">>

\* The calls of a tick that the platform or the DB can fail.
FailPoints ==
    {"none", "ensureServices", "createStatefulSet", "reconcileNamespaces",
     "placementInit", "placementGet", "placementAdd", "placementRemove",
     "updateStatefulSet"}

Range(s) == {s[i] : i \in 1..Len(s)}

\* All orders in which a lister can return n objects.
Perms(n) ==
    {p \in [1..n -> 1..n] : \A i, j \in 1..n : p[i] = p[j] => i = j}

\* ------------------------------------------------------------- the state

VARIABLES
    cluster,      \* the M3DBCluster object: spec and status
    services,     \* names of the cluster's services that exist
    sets,         \* the cluster's child StatefulSets, in creation order
    placement,    \* the DB's placement: a set of instances
    namespaces,   \* the DB's namespaces: a set of names
    tick,         \* what the last cluster tick saw and did
    runPc,        \* where Run is: "init", "running", "stopped", "failed"
    syncedCaches, \* the informer caches that have synced
    stopCh,       \* whether the stop channel is closed
    wq,           \* the two work queues
    workers,      \* each worker goroutine: its state and the key it holds
    last,         \* what the last worker step or informer callback processed
    pods,         \* the pod objects, by name
    podIdentitySources, \* the cluster's podIdentityConfig.sources
    podTick,      \* what the last pod tick saw and did
    userEdits,    \* the edits the user has made to a cluster left to converge
    heap,         \* the memory behind the informer cache's objects and their copies
    cacheTick,    \* what the last tick read from the cache and wrote
    decided,      \* one pass of the per-set loop body: what it read and decided
    notifications, \* the changes of watched objects the informers have yet to report
    listed        \* the keys of the clusters and pods the listers find

worldVars == <<cluster, services, sets, placement, namespaces, tick>>
queueVars == <<runPc, syncedCaches, stopCh, wq, workers, last>>
podVars == <<pods, podIdentitySources, podTick>>
liveVars == <<userEdits>>
cacheVars == <<heap, cacheTick>>
pureVars == <<decided>>
noteVars == <<notifications>>
listVars == <<listed>>

\* fmt.Sprintf("%s-%d", cluster.Name, nextID)
StatefulSetName(id) == ClusterName \o "-" \o ToString(id)

\* A pod of a StatefulSet: <set name>-<ordinal>.
PodName(setName, ordinal) == setName \o "-" \o ToString(ordinal)

\* The pods of a set whose replicas are all ready, lowest ordinal first.
PodsOfSet(set) == [i \in 1..set.replicas |-> PodName(set.name, i - 1)]

\* ----------------------------------------------- pure parts of the tick

\* sort.Sort(myspec.IsolationGroups(isoGroups)): by name.
RECURSIVE SortIsolationGroups(_)
SortIsolationGroups(gs) ==
    IF Len(gs) = 0 THEN <<>>
    ELSE LET m == CHOOSE i \in 1..Len(gs) :
                     \A j \in 1..Len(gs) :
                        NameRank(gs[i].name) <= NameRank(gs[j].name)
             rest == [k \in 1..(Len(gs) - 1) |->
                         IF k < m THEN gs[k] ELSE gs[k + 1]]
         IN  <<gs[m]>> \o SortIsolationGroups(rest)

\* Mutant: the copy is never sorted.
SortedIsoGroups_Unsorted(c) == c.isolationGroups

\* copy(isoGroups, cluster.Spec.IsolationGroups); sort.Sort(...)
SortedIsoGroups(c) == SortIsolationGroups(c.isolationGroups)

\* IsolationGroups.GetByName: the group of that name, if the spec has one.
HasGroup(gs, zone) == \E i \in 1..Len(gs) : gs[i].name = zone
GetByName(gs, zone) == gs[CHOOSE i \in 1..Len(gs) : gs[i].name = zone]

\* Mutant: the readiness test never holds a tick back.
SetNotReady_Never(sts) == FALSE

\* The readiness test of one child set.
SetNotReady(sts) ==
    sts.replicas # NilReplicas /\ sts.replicas # sts.ready

\* The first loop over the children: some set is still bootstrapping.
AnySetNotReady(children) ==
    \E i \in 1..Len(children) : SetNotReady(children[i])

\* instancesInIsoGroup
instancesInIsoGroup(pl, isoGroup) == {inst \in pl : inst.group = isoGroup}

\* Mutant: every instance passes for available.
UnavailableInstances_None(pl) == {}

\* inst.IsAvailable() fails for these.
UnavailableInstances(pl) == {inst \in pl : inst.state # "available"}

\* newCount of the resize branch.
NewCount(current, desired) ==
    IF current < desired THEN current + 1 ELSE current - 1

\* Mutant: the resize is tried before the placement removal.
ScalingDecision_ResizeFirst(desired, current, inPlacement) ==
    IF desired = current /\ current = inPlacement THEN "continue"
    ELSE IF desired = current /\ inPlacement < current THEN "expand"
    ELSE IF desired # current THEN "resize"
    ELSE "shrink"

\* Mutant: pods that are absent from the placement are never added to it.
ScalingDecision_NoExpand(desired, current, inPlacement) ==
    IF desired = current /\ inPlacement <= current THEN "continue"
    ELSE IF inPlacement > desired THEN "shrink"
    ELSE "resize"

\* Mutant: a converged set is not passed over.
ScalingDecision_NoContinue(desired, current, inPlacement) ==
    IF desired = current /\ inPlacement < current THEN "expand"
    ELSE IF inPlacement > desired THEN "shrink"
    ELSE "resize"

\* What the per-set scaling step decides for one set.
ScalingDecision(desired, current, inPlacement) ==
    IF desired = current /\ current = inPlacement THEN "continue"
    ELSE IF desired = current /\ inPlacement < current THEN "expand"
    ELSE IF inPlacement > desired THEN "shrink"
    ELSE "resize"

\* One pass of the loop body seen by itself: desired is the group's
\* numInstances, an int32 the user writes; current is the set's declared
\* replicas, which the platform keeps at zero or above; inPlacement is a
\* count.
NoDecision ==
    [desired |-> 0, current |-> 0, inPlacement |-> 0, decision |-> "none",
     newCount |-> 0]

LoopBodyInputs ==
    [desired : -1..(MaxInstances + 1), current : 0..(MaxInstances + 1),
     inPlacement : 0..(MaxInstances + 1), decision : {"none"},
     newCount : {0}]

\* The body of the per-set loop for one set, up to the call it ends in.
LoopBody ==
    /\ decided.decision = "none"
    /\ \E d \in {ScalingDecision(decided.desired, decided.current,
                                  decided.inPlacement)} :
          decided' = [decided EXCEPT
                        !.decision = d,
                        !.newCount = IF d = "resize"
                                     THEN NewCount(decided.current,
                                                   decided.desired)
                                     ELSE decided.current]
    /\ UNCHANGED <<worldVars, queueVars, podVars, liveVars, cacheVars, noteVars, listVars>>

\* ------------------------------------------------ the tick, step by step
\* A tick threads a record r through its steps: the objects as the tick has
\* left them so far, the writes it has issued, and the branch it returned on
\* ("running" while it has not returned).

StartTick(c, svcs, ss, pl, ns, f, ord) ==
    [cluster |-> c, services |-> svcs, sets |-> ss, placement |-> pl,
     namespaces |-> ns, fail |-> f, order |-> ord,
     svcCreates |-> <<>>, stsWrites |-> <<>>, adminWrites |-> <<>>,
     statusWrites |-> <<>>, events |-> <<>>, err |-> "none",
     updated |-> FALSE, acted |-> "", branch |-> "running", reached |-> {}]

\* r.reached collects the calls the tick has made that can fail.
Reached(r, call) == [r EXCEPT !.reached = @ \cup {call}]

Return(r, b) == [r EXCEPT !.branch = b]
ReturnErr(r, e) == [r EXCEPT !.branch = "error", !.err = e]

\* if err != nil { return err }
ReturnIfErr(e) == IF e.err # "none" THEN ReturnErr(e, e.err) ELSE e

\* ensureServices: create each required service that does not exist.
ensureServices(r) ==
    IF r.fail = "ensureServices" THEN [r EXCEPT !.err = "ensureServices"]
    ELSE [r EXCEPT
            !.svcCreates = SelectSeq(ServiceNames,
                                     LAMBDA s : s \notin r.services),
            !.services = r.services \cup Range(ServiceNames),
            !.reached = @ \cup {"ensureServices"}]

\* Mutant: the error of ensureServices is dropped and the tick goes on.
ServicesStep_ErrIgnored(r) == [ensureServices(r) EXCEPT !.err = "none"]

\* if err := c.ensureServices(cluster); err != nil { return err }
ServicesStep(r) == ReturnIfErr(ensureServices(r))

\* Mutant: a spec without isolation groups is not turned away.
EmptyGuard_Off(r) == r

\* if len(cluster.Spec.IsolationGroups) == 0 { return nil }
EmptyGuard(r) ==
    IF r.branch # "running" THEN r
    ELSE IF Len(r.cluster.isolationGroups) = 0 THEN Return(r, "noGroups")
    ELSE r

\* getChildStatefulSets: the sets the cluster controls, each deep-copied,
\* in the order the lister returns them.
getChildStatefulSets(r) == [i \in 1..Len(r.sets) |-> r.sets[r.order[i]]]

\* The loop that returns while any child set is not ready.
ReadinessGate(r) ==
    IF r.branch # "running" THEN r
    ELSE IF AnySetNotReady(getChildStatefulSets(r))
         THEN Return(r, "waitReady")
    ELSE r

\* k8sops.GenerateStatefulSet: the set of one isolation group, named
\* <cluster>-<index>, index being the number of children so far.
GenerateStatefulSet(c, isoGroupName, numInstances, index) ==
    [name |-> StatefulSetName(index), group |-> isoGroupName,
     replicas |-> numInstances, ready |-> 0]

\* The isolation group the creation step builds the next set from.
NextGroup(isoGroups, nextID) == isoGroups[nextID + 1]

\* Mutant: the tick never stops to create a missing set.
NeedsCreate_Never(children, isoGroups) == FALSE

\* The test that sends the tick into the creation step.
NeedsCreate(children, isoGroups) == Len(children) # Len(isoGroups)

\* StatefulSets(cluster.Namespace).Create(sts) and the return after it.
CreateStatefulSet(r, sts) ==
    IF r.fail = "createStatefulSet" THEN ReturnErr(r, "createStatefulSet")
    ELSE Return([r EXCEPT
                   !.reached = @ \cup {"createStatefulSet"},
                   !.sets = Append(r.sets, sts),
                   !.stsWrites = Append(r.stsWrites,
                       [op |-> "create", name |-> sts.name,
                        group |-> sts.group, replicas |-> sts.replicas])],
                "created")

\* The body of the creation branch: nextID, GenerateStatefulSet, Create.
CreateNext(r, isoGroups, nextID) ==
    IF nextID + 1 > Len(isoGroups)
    THEN ReturnErr(r, "panic: index out of range")
    ELSE CreateStatefulSet(r,
            GenerateStatefulSet(r.cluster,
                                NextGroup(isoGroups, nextID).name,
                                NextGroup(isoGroups, nextID).numInstances,
                                nextID))

\* if len(childrenSets) != len(isoGroups) { create the next set; return }
CreateStep(r) ==
    IF r.branch # "running" THEN r
    ELSE IF ~NeedsCreate(r.sets, r.cluster.isolationGroups) THEN r
    ELSE CreateNext(r, SortedIsoGroups(r.cluster), Len(r.sets))

NamespaceWrites(op, names) ==
    [i \in 1..Len(names) |-> [op |-> op, id |-> names[i]]]

\* reconcileNamespaces: create the declared namespaces the DB lacks, delete
\* the DB's namespaces the spec does not declare.
reconcileNamespaces(r) ==
    IF r.fail = "reconcileNamespaces"
    THEN [r EXCEPT !.err = "reconcileNamespaces"]
    ELSE [r EXCEPT
            !.reached = @ \cup {"reconcileNamespaces"},
            !.adminWrites = r.adminWrites
                \o NamespaceWrites("namespaceCreate",
                       SelectSeq(r.cluster.namespaces,
                                 LAMBDA n : n \notin r.namespaces))
                \o NamespaceWrites("namespaceDelete",
                       SelectSeq(NamespaceOrder,
                                 LAMBDA n :
                                    /\ n \in r.namespaces
                                    /\ n \notin Range(r.cluster.namespaces))),
            !.namespaces = Range(r.cluster.namespaces)]

\* if len(cluster.Spec.Namespaces) == 0 { warn }
WarnNoNamespaces(r) ==
    IF r.branch # "running" THEN r
    ELSE IF Len(r.cluster.namespaces) = 0
         THEN [r EXCEPT !.events =
                  Append(r.events, "cluster has no namespaces")]
    ELSE r

\* reconcileNamespaces, its error check, and the no-namespaces warning.
NamespaceStep(r) ==
    IF r.branch # "running" THEN r
    ELSE WarnNoNamespaces(ReturnIfErr(reconcileNamespaces(r)))

\* The instances a placement init derives from the pods of the sets.
InstancesOfSets(ss, st) ==
    UNION {{[id |-> PodName(ss[i].name, k - 1), group |-> ss[i].group,
             state |-> st] : k \in 1..ss[i].replicas} : i \in 1..Len(ss)}

\* validatePlacementWithStatus: validate the spec, initialise the placement
\* from the current pods and set the PlacementInitialized condition.
\* r.updated tells whether the cluster object was updated.
validatePlacementWithStatus(r) ==
    IF r.cluster.replicationFactor # Len(r.cluster.isolationGroups)
    THEN [r EXCEPT !.err = "invalid replication factor"]
    ELSE IF r.cluster.numberOfShards <= 0
    THEN [r EXCEPT !.err = "invalid number of shards"]
    ELSE IF r.fail = "placementInit"
    THEN [r EXCEPT !.err = "placementInit"]
    ELSE [r EXCEPT
            !.reached = @ \cup {"placementInit"},
            !.adminWrites = Append(r.adminWrites,
                [op |-> "placementInit", id |-> ClusterName]),
            !.placement = InstancesOfSets(r.sets, "initializing"),
            !.statusWrites = Append(r.statusWrites, "PlacementInitialized"),
            !.cluster.placementInitialized = TRUE,
            !.updated = TRUE]

\* cluster.Status.HasInitializedPlacement()
HasInitializedPlacement(c) == c.placementInitialized

\* if updated { return errors.New("re-enqueing cluster due to API update") }
ReturnIfUpdated(e) ==
    IF e.branch # "running" THEN e
    ELSE IF e.updated
         THEN [e EXCEPT !.events = Append(e.events, "FailedToUpdate"),
                        !.err = "re-enqueing cluster due to API update",
                        !.branch = "placementInit"]
    ELSE e

\* if !cluster.Status.HasInitializedPlacement() { ... }
PlacementInitStep(r) ==
    IF r.branch # "running" THEN r
    ELSE IF HasInitializedPlacement(r.cluster) THEN r
    ELSE ReturnIfUpdated(ReturnIfErr(validatePlacementWithStatus(r)))

\* The placement Get and the wait for unavailable instances.
AvailabilityGate(r) ==
    IF r.branch # "running" THEN r
    ELSE IF r.fail = "placementGet" THEN ReturnErr(r, "placementGet")
    ELSE IF UnavailableInstances(r.placement) # {}
         THEN Return([r EXCEPT !.events =
                         Append(r.events, "LongerThanUsual"),
                               !.reached = @ \cup {"placementGet"}],
                     "waitAvailable")
    ELSE Reached(r, "placementGet")

\* expandPlacementForSet: add the pods of the set that the placement lacks.
expandPlacementForSet(r, set, group) ==
    IF r.fail = "placementAdd" THEN ReturnErr(r, "placementAdd")
    ELSE Return([r EXCEPT
                   !.reached = @ \cup {"placementAdd"},
                   !.adminWrites = Append(r.adminWrites,
                       [op |-> "placementAdd", id |-> set.name]),
                   !.placement = r.placement \cup
                       {[id |-> PodName(set.name, k - 1),
                         group |-> group.name, state |-> "initializing"] :
                          k \in {j \in 1..set.replicas :
                                   \A inst \in r.placement :
                                      inst.id # PodName(set.name, j - 1)}}],
                "expanded")

\* The ordinals of the set's pods that have an instance in the placement.
OrdinalsInPlacement(pl, set) ==
    {k \in 0..(set.replicas - 1) :
        \E inst \in pl : inst.id = PodName(set.name, k)}

Max(S) == CHOOSE x \in S : \A y \in S : y <= x

\* The instance a shrink removes: of the set's pods that are in the
\* placement, the one with the highest ordinal.
InstanceToRemove(pl, set) ==
    PodName(set.name, Max(OrdinalsInPlacement(pl, set)))

\* shrinkPlacementForSet: remove one instance of the set from the placement,
\* chosen by highest pod ordinal; the DB marks the instance leaving.
shrinkPlacementForSet(r, set) ==
    IF set.replicas = 0 THEN ReturnErr(r, "no pods in set")
    ELSE IF OrdinalsInPlacement(r.placement, set) = {}
    THEN ReturnErr(r, "no pods in placement")
    ELSE IF r.fail = "placementRemove" THEN ReturnErr(r, "placementRemove")
    ELSE Return([r EXCEPT
                   !.reached = @ \cup {"placementRemove"},
                   !.adminWrites = Append(r.adminWrites,
                       [op |-> "placementRemove",
                        id |-> InstanceToRemove(r.placement, set)]),
                   !.placement =
                       {IF inst.id = InstanceToRemove(r.placement, set)
                        THEN [inst EXCEPT !.state = "leaving"]
                        ELSE inst : inst \in r.placement}],
                "shrunk")

\* set.Spec.Replicas = newCount; StatefulSets(...).Update(set)
ResizeSet(r, k, newCount) ==
    IF r.fail = "updateStatefulSet" THEN ReturnErr(r, "updateStatefulSet")
    ELSE Return([r EXCEPT
                   !.reached = @ \cup {"updateStatefulSet"},
                   !.sets[k].replicas = newCount,
                   !.stsWrites = Append(r.stsWrites,
                       [op |-> "update", name |-> r.sets[k].name,
                        group |-> r.sets[k].group,
                        replicas |-> newCount])],
                "resized")

\* The branches of the loop body for a set that is not converged; r.acted
\* names the set the tick acts on.
ActOn(r, set) == [r EXCEPT !.acted = set.name]

ScaleSet(r, k, set, group, d) ==
    CASE d = "expand" -> expandPlacementForSet(ActOn(r, set), set, group)
      [] d = "shrink" -> shrinkPlacementForSet(ActOn(r, set), set)
      [] OTHER -> ResizeSet(ActOn(r, set), k,
                            NewCount(set.replicas, group.numInstances))

DecisionFor(r, set, group) ==
    ScalingDecision(group.numInstances, set.replicas,
                    Cardinality(instancesInIsoGroup(r.placement, group.name)))

\* Mutant: the loop body does not return after it has acted on a set.
RECURSIVE ScaleFrom_NoReturn(_, _, _)
ScaleFrom_NoReturn(r, isoGroups, i) ==
    IF i > Len(r.sets) \/ r.branch = "error" THEN r
    ELSE IF r.sets[r.order[i]].group = NoLabel
    THEN ReturnErr(r, "statefulset has no isolation-group label")
    ELSE IF ~HasGroup(isoGroups, r.sets[r.order[i]].group)
    THEN ReturnErr(r, "zone not found in cluster isoGroups")
    ELSE IF r.sets[r.order[i]].replicas = NilReplicas
    THEN ReturnErr(r, "set has unset spec replica")
    ELSE IF DecisionFor(r, r.sets[r.order[i]],
                        GetByName(isoGroups, r.sets[r.order[i]].group))
            = "continue"
    THEN ScaleFrom_NoReturn(r, isoGroups, i + 1)
    ELSE ScaleFrom_NoReturn(
             ScaleSet(r, r.order[i], r.sets[r.order[i]],
                      GetByName(isoGroups, r.sets[r.order[i]].group),
                      DecisionFor(r, r.sets[r.order[i]],
                          GetByName(isoGroups, r.sets[r.order[i]].group))),
             isoGroups, i + 1)

\* The per-set loop, from the i-th set the lister returned.
RECURSIVE ScaleFrom(_, _, _)
ScaleFrom(r, isoGroups, i) ==
    IF i > Len(r.sets) THEN r
    ELSE IF r.sets[r.order[i]].group = NoLabel
    THEN ReturnErr(r, "statefulset has no isolation-group label")
    ELSE IF ~HasGroup(isoGroups, r.sets[r.order[i]].group)
    THEN ReturnErr(r, "zone not found in cluster isoGroups")
    ELSE IF r.sets[r.order[i]].replicas = NilReplicas
    THEN ReturnErr(r, "set has unset spec replica")
    ELSE IF DecisionFor(r, r.sets[r.order[i]],
                        GetByName(isoGroups, r.sets[r.order[i]].group))
            = "continue"
    THEN ScaleFrom(r, isoGroups, i + 1)
    ELSE ScaleSet(r, r.order[i], r.sets[r.order[i]],
                  GetByName(isoGroups, r.sets[r.order[i]].group),
                  DecisionFor(r, r.sets[r.order[i]],
                      GetByName(isoGroups, r.sets[r.order[i]].group)))

\* for _, set := range childrenSets { ... }
ScaleStep(r) ==
    IF r.branch # "running" THEN r
    ELSE ScaleFrom(r, SortedIsoGroups(r.cluster), 1)

\* reconcileBootstrappingStatus: clear the bootstrap markers of the pods
\* whose placement entry is available (a status write).
reconcileBootstrappingStatus(r) ==
    [r EXCEPT !.statusWrites = Append(r.statusWrites, "PodBootstrapping")]

\* c.recorder.NormalEvent(..., "cluster updated and synced"); return nil
Synced(r) ==
    Return([r EXCEPT !.events =
               Append(r.events, "cluster updated and synced")], "synced")

\* The second placement Get, the bootstrap-marker step and the final event.
FinishStep(r) ==
    IF r.branch # "running" THEN r
    ELSE IF r.fail = "placementGet" THEN ReturnErr(r, "placementGet")
    ELSE Synced(reconcileBootstrappingStatus(Reached(r, "placementGet")))

\* handleClusterUpdate, from the deep copy to the return.
handleClusterUpdate(c, svcs, ss, pl, ns, f, ord) ==
    FinishStep(ScaleStep(AvailabilityGate(PlacementInitStep(NamespaceStep(
        CreateStep(ReadinessGate(EmptyGuard(ServicesStep(
            StartTick(c, svcs, ss, pl, ns, f, ord))))))))))

\* ------------------------------------------------------------ the actions

NoTick ==
    [ran |-> FALSE, branch |-> "none", err |-> "none", acted |-> "",
     svcCreates |-> <<>>, stsWrites |-> <<>>,
     adminWrites |-> <<>>, statusWrites |-> <<>>, events |-> <<>>,
     reached |-> {}, order |-> <<>>,
     pre |-> [cluster |-> [isolationGroups |-> <<>>, namespaces |-> <<>>,
                           replicationFactor |-> 0, numberOfShards |-> 0,
                           placementInitialized |-> FALSE],
              services |-> {}, sets |-> <<>>, placement |-> {},
              namespaces |-> {}]]

\* The tick in which the call f fails, given the tick r0 in which no call
\* fails.
FailingAt(r0, f, ord) ==
    IF f = "none" THEN r0
    ELSE handleClusterUpdate(cluster, services, sets, placement, namespaces,
                             f, ord)

\* What a tick that ended as r leaves behind: the objects as it wrote them
\* and the record of what it saw and did.
TickRecord(r) ==
    [ran |-> TRUE, branch |-> r.branch, err |-> r.err, acted |-> r.acted,
     svcCreates |-> r.svcCreates, stsWrites |-> r.stsWrites,
     adminWrites |-> r.adminWrites, statusWrites |-> r.statusWrites,
     events |-> r.events, reached |-> r.reached,
     order |-> IF r.acted = "" THEN <<>> ELSE r.order,
     pre |-> [cluster |-> cluster, services |-> services, sets |-> sets,
              placement |-> placement, namespaces |-> namespaces]]

TickEffect(r) ==
    /\ cluster' = r.cluster
    /\ services' = r.services
    /\ sets' = r.sets
    /\ placement' = r.placement
    /\ namespaces' = r.namespaces
    /\ tick' = TickRecord(r)
    /\ UNCHANGED <<queueVars, podVars, liveVars, cacheVars, pureVars, noteVars, listVars>>

\* A worker runs handleClusterEvent for the cluster: the whole tick. Any
\* one of the calls the tick makes can fail.
ClusterTick ==
    \E ord \in Perms(Len(sets)) :
      \E r0 \in {handleClusterUpdate(cluster, services, sets, placement,
                                     namespaces, "none", ord)} :
        \E f \in {x \in FailPoints : x = "none" \/ x \in r0.reached} :
          \E r \in {FailingAt(r0, f, ord)} : TickEffect(r)

\* The same worker step when no call fails.
TickNoFail ==
    \E ord \in Perms(Len(sets)) :
        \E r \in {handleClusterUpdate(cluster, services, sets, placement,
                                      namespaces, "none", ord)} :
            TickEffect(r)

\* The platform brings a set's pods up or down, one pod at a time.
StatefulSetProgress ==
    \E k \in 1..Len(sets) :
        /\ sets[k].ready # sets[k].replicas
        /\ sets' = [sets EXCEPT ![k].ready =
                       IF @ < sets[k].replicas THEN @ + 1 ELSE @ - 1]
        /\ tick' = NoTick
        /\ UNCHANGED <<cluster, services, placement, namespaces>>
        /\ UNCHANGED <<queueVars, podVars, liveVars, cacheVars, pureVars, noteVars, listVars>>

\* A DB instance finishes bootstrapping its shards.
InstanceAvailable ==
    \E inst \in placement :
        /\ inst.state = "initializing"
        /\ placement' = (placement \ {inst})
                            \cup {[inst EXCEPT !.state = "available"]}
        /\ tick' = NoTick
        /\ UNCHANGED <<cluster, services, sets, namespaces>>
        /\ UNCHANGED <<queueVars, podVars, liveVars, cacheVars, pureVars, noteVars, listVars>>

\* A leaving DB instance has handed its shards over and leaves the placement.
InstanceLeft ==
    \E inst \in placement :
        /\ inst.state = "leaving"
        /\ placement' = placement \ {inst}
        /\ tick' = NoTick
        /\ UNCHANGED <<cluster, services, sets, namespaces>>
        /\ UNCHANGED <<queueVars, podVars, liveVars, cacheVars, pureVars, noteVars, listVars>>

\* The user edits numInstances of one isolation group.
UserScales ==
    \E i \in 1..Len(cluster.isolationGroups), n \in 0..MaxInstances :
        /\ cluster.isolationGroups[i].numInstances # n
        /\ cluster' = [cluster EXCEPT !.isolationGroups[i].numInstances = n]
        /\ tick' = NoTick
        /\ UNCHANGED <<services, sets, placement, namespaces>>
        /\ UNCHANGED <<queueVars, podVars, liveVars, cacheVars, pureVars, noteVars, listVars>>

\* The user edits numInstances of one isolation group of a cluster that is
\* then left to converge: one of a bounded number of edits.
UserRescales ==
    \E i \in 1..Len(cluster.isolationGroups), n \in 0..MaxInstances :
        /\ userEdits < MaxEdits
        /\ cluster.isolationGroups[i].numInstances # n
        /\ cluster' = [cluster EXCEPT !.isolationGroups[i].numInstances = n]
        /\ userEdits' = userEdits + 1
        /\ tick' = NoTick
        /\ UNCHANGED <<services, sets, placement, namespaces>>
        /\ UNCHANGED <<queueVars, podVars, cacheVars, pureVars, noteVars, listVars>>

\* Somebody deletes one of the cluster's services.
ServiceDeleted ==
    \E s \in services :
        /\ services' = services \ {s}
        /\ tick' = NoTick
        /\ UNCHANGED <<cluster, sets, placement, namespaces>>
        /\ UNCHANGED <<queueVars, podVars, liveVars, cacheVars, pureVars, noteVars, listVars>>

\* The cluster objects a user creates.
Group(n, k) == [name |-> n, numInstances |-> k]

InitialClusters ==
    {[isolationGroups |-> <<Group("b", 1), Group("a", 1)>>,
      namespaces |-> <<"m">>, replicationFactor |-> 2,
      numberOfShards |-> 256, placementInitialized |-> FALSE],
     [isolationGroups |-> <<Group("b", 1), Group("a", 1)>>,
      namespaces |-> <<>>, replicationFactor |-> 3,
      numberOfShards |-> 256, placementInitialized |-> FALSE],
     [isolationGroups |-> <<>>,
      namespaces |-> <<>>, replicationFactor |-> 3,
      numberOfShards |-> 256, placementInitialized |-> FALSE]}

\* Nothing of the cluster exists yet.
ColdWorld ==
    /\ services = {}
    /\ sets = <<>>
    /\ placement = {}
    /\ namespaces = {}
    /\ tick = NoTick

\* ------------------------------------------------- the queues and workers

Queues == {"cluster", "pod"}

\* The <namespace>/<name> keys the informers produce for each queue.
Keys(q) == IF q = "cluster" THEN {"default/cluster"}
           ELSE {"default/cluster-0-0"}

\* The keys of the objects the cluster lister and the pod lister hold.
ListerKeys == UNION {Keys(q) : q \in Queues}

Caches == {"clusters", "statefulSets", "pods"}

Workers == 1..NWorkers

\* workqueue.NewNamedRateLimitingQueue: an empty queue. waiting holds the
\* keys of AddRateLimited whose delay has not elapsed, limited the keys the
\* rate limiter keeps a failure record for.
NewQueue ==
    [queue |-> <<>>, dirty |-> {}, processing |-> {}, shuttingDown |-> FALSE,
     waiting |-> {}, limited |-> {}]

\* workqueue Add: drop when shutting down or already dirty; a key that is
\* being processed is only marked dirty.
QueueAdd(Q, key) ==
    IF Q.shuttingDown \/ key \in Q.dirty THEN Q
    ELSE IF key \in Q.processing THEN [Q EXCEPT !.dirty = @ \cup {key}]
    ELSE [Q EXCEPT !.dirty = @ \cup {key}, !.queue = Append(@, key)]

\* workqueue AddRateLimited: the limiter records the key and the key is
\* added once its backoff has elapsed.
QueueAddRateLimited(Q, key) ==
    IF Q.shuttingDown THEN [Q EXCEPT !.limited = @ \cup {key}]
    ELSE [Q EXCEPT !.limited = @ \cup {key}, !.waiting = @ \cup {key}]

\* workqueue Get, for a queue that is not empty: the head moves from the
\* queue and the dirty set to the processing set.
QueueGet(Q) ==
    [Q EXCEPT !.queue = Tail(@), !.processing = @ \cup {Head(Q.queue)},
              !.dirty = @ \ {Head(Q.queue)}]

\* workqueue Done: the key leaves the processing set and, if it was marked
\* dirty meanwhile, goes back on the queue.
QueueDone(Q, key) ==
    IF key \in Q.dirty /\ key \in Q.processing
    THEN [Q EXCEPT !.processing = @ \ {key}, !.queue = Append(@, key)]
    ELSE [Q EXCEPT !.processing = @ \ {key}]

\* workqueue Forget: the rate limiter drops its record of the key.
QueueForget(Q, key) == [Q EXCEPT !.limited = @ \ {key}]

\* workqueue ShutDown.
QueueShutDown(Q) == [Q EXCEPT !.shuttingDown = TRUE, !.waiting = {}]

\* The queues Run shuts down when it returns: defer ...ShutDown().
QueuesShutDownByRun == {"cluster"}

\* Mutant: Run does not wait for the pod cache.
CachesRunWaitsFor_NoPods == {"clusters", "statefulSets"}

\* The caches Run waits for: cache.WaitForCacheSync(stopCh, ...).
CachesRunWaitsFor == {"clusters", "statefulSets", "pods"}

\* Mutant: Done is called when the closure is entered, not deferred.
AfterGet_DoneNotDeferred(Q, key) == QueueDone(Q, key)

\* Entering the closure only registers the deferred Done.
AfterGet(Q, key) == Q

\* Mutant: the closure forgets the key whatever the handler returns.
AfterHandler_ForgetAlways(Q, key, ok) == QueueDone(QueueForget(Q, key), key)

\* The closure from the handler's return on: on success Forget; on an error
\* return the error, which the caller hands to runtime.HandleError; in both
\* cases the deferred Done.
AfterHandler(Q, key, ok) ==
    IF ok THEN QueueDone(QueueForget(Q, key), key) ELSE QueueDone(Q, key)

NoLast == [q |-> "none", key |-> "none", result |-> "none"]

ShutDownByRun(W) ==
    [q \in Queues |->
        IF q \in QueuesShutDownByRun THEN QueueShutDown(W[q]) ELSE W[q]]

\* An informer cache finishes its initial list.
CacheSyncs ==
    \E c \in Caches \ syncedCaches :
        /\ syncedCaches' = syncedCaches \cup {c}
        /\ last' = NoLast
        /\ UNCHANGED <<runPc, stopCh, wq, workers>>
        /\ UNCHANGED <<worldVars, podVars, liveVars, cacheVars, pureVars, noteVars, listVars>>

\* Somebody closes the stop channel.
StopClosed ==
    /\ ~stopCh
    /\ stopCh' = TRUE
    /\ last' = NoLast
    /\ UNCHANGED <<runPc, syncedCaches, wq, workers>>
    /\ UNCHANGED <<worldVars, podVars, liveVars, cacheVars, pureVars, noteVars, listVars>>

\* enqueueCluster, enqueuePod: an informer callback hands over an object.
Enqueue ==
    \E q \in Queues : \E key \in Keys(q) :
        /\ wq' = [wq EXCEPT ![q] = QueueAddRateLimited(@, key)]
        /\ last' = NoLast
        /\ UNCHANGED <<runPc, syncedCaches, stopCh, workers>>
        /\ UNCHANGED <<worldVars, podVars, liveVars, cacheVars, pureVars, noteVars, listVars>>

\* The informers New registers handlers with.
Informers == {"cluster", "statefulSet", "pod"}

\* The keys of the objects an informer reports.
ObjectKeys(kind) ==
    IF kind = "statefulSet" THEN {"default/cluster-0"}
    ELSE Keys(kind)

\* AddFunc and UpdateFunc: enqueueCluster or enqueuePod of the object; for
\* a StatefulSet, handleStatefulSetUpdate enqueues the cluster that owns it.
OnAddOrUpdate(W, kind, key) ==
    IF kind = "pod" THEN [W EXCEPT !["pod"] = QueueAddRateLimited(@, key)]
    ELSE IF kind = "cluster"
         THEN [W EXCEPT !["cluster"] = QueueAddRateLimited(@, key)]
    ELSE [W EXCEPT !["cluster"] =
             QueueAddRateLimited(@, "default/" \o ClusterName)]

\* Mutant: a deleted pod is enqueued like an added one.
OnDelete_PodEnqueued(W, kind, key) ==
    IF kind = "cluster" THEN W ELSE OnAddOrUpdate(W, kind, key)

\* DeleteFunc: the cluster's only logs, the pod's is empty, the
\* StatefulSet's is handleStatefulSetUpdate.
OnDelete(W, kind, key) ==
    IF kind = "statefulSet" THEN OnAddOrUpdate(W, kind, key) ELSE W

\* An informer calls the handler of an add, update or delete notification.
Notified ==
    \E kind \in Informers, ev \in {"add", "update", "delete"} :
      \E key \in ObjectKeys(kind) :
        /\ wq' = IF ev = "delete" THEN OnDelete(wq, kind, key)
                  ELSE OnAddOrUpdate(wq, kind, key)
        /\ last' = [q |-> kind, key |-> key, result |-> ev]
        /\ UNCHANGED <<runPc, syncedCaches, stopCh, workers>>
        /\ UNCHANGED <<worldVars, podVars, liveVars, cacheVars, pureVars, noteVars, listVars>>

\* The backoff of a rate-limited add elapses.
DelayElapsed ==
    \E q \in Queues : \E key \in Keys(q) :
        /\ key \in wq[q].waiting
        /\ wq' = [wq EXCEPT ![q] =
                     QueueAdd([@ EXCEPT !.waiting = @ \ {key}], key)]
        /\ last' = NoLast
        /\ UNCHANGED <<runPc, syncedCaches, stopCh, workers>>
        /\ UNCHANGED <<worldVars, podVars, liveVars, cacheVars, pureVars, noteVars, listVars>>

\* Run: the caches have synced and the workers are started.
RunStartsWorkers ==
    /\ runPc = "init"
    /\ CachesRunWaitsFor \subseteq syncedCaches
    /\ runPc' = "running"
    /\ workers' = [q \in Queues |-> [w \in Workers |->
                      [state |-> "idle", key |-> "none"]]]
    /\ last' = NoLast
    /\ UNCHANGED <<syncedCaches, stopCh, wq>>
    /\ UNCHANGED <<worldVars, podVars, liveVars, cacheVars, pureVars, noteVars, listVars>>

\* Run: WaitForCacheSync gives up because the stop channel is closed; Run
\* returns the error and its deferred ShutDown runs.
RunSyncFails ==
    /\ runPc = "init"
    /\ stopCh
    /\ runPc' = "failed"
    /\ wq' = ShutDownByRun(wq)
    /\ last' = NoLast
    /\ UNCHANGED <<syncedCaches, stopCh, workers>>
    /\ UNCHANGED <<worldVars, podVars, liveVars, cacheVars, pureVars, noteVars, listVars>>

\* Run: <-stopCh; return nil, and the deferred ShutDown runs.
RunStops ==
    /\ runPc = "running"
    /\ stopCh
    /\ runPc' = "stopped"
    /\ wq' = ShutDownByRun(wq)
    /\ last' = NoLast
    /\ UNCHANGED <<syncedCaches, stopCh, workers>>
    /\ UNCHANGED <<worldVars, podVars, liveVars, cacheVars, pureVars, noteVars, listVars>>

\* processClusterQueueItem, processPodQueueItem up to the closure: Get
\* blocks while the queue is empty and open; it hands out the head, or
\* reports the shutdown, on which the worker leaves its loop.
WorkerGets ==
    \E q \in Queues, w \in Workers :
        /\ workers[q][w].state = "idle"
        /\ wq[q].queue # <<>> \/ wq[q].shuttingDown
        /\ IF wq[q].queue # <<>>
           THEN /\ wq' = [wq EXCEPT ![q] =
                             AfterGet(QueueGet(@), Head(wq[q].queue))]
                /\ workers' = [workers EXCEPT ![q][w] =
                                  [state |-> "handling",
                                   key |-> Head(wq[q].queue)]]
           ELSE /\ wq' = wq
                /\ workers' = [workers EXCEPT ![q][w] =
                                  [state |-> "exited", key |-> "none"]]
        /\ last' = NoLast
        /\ UNCHANGED <<runPc, syncedCaches, stopCh>>
        /\ UNCHANGED <<worldVars, podVars, liveVars, cacheVars, pureVars, noteVars, listVars>>

\* The closure of processClusterQueueItem, processPodQueueItem: the handler
\* runs for the key and returns nil or an error.
WorkerSyncs ==
    \E q \in Queues, w \in Workers, ok \in BOOLEAN :
        /\ workers[q][w].state = "handling"
        /\ wq' = [wq EXCEPT ![q] = AfterHandler(@, workers[q][w].key, ok)]
        /\ workers' = [workers EXCEPT ![q][w] =
                          [state |-> "idle", key |-> "none"]]
        /\ last' = [q |-> q, key |-> workers[q][w].key,
                    result |-> IF ok THEN "ok" ELSE "error"]
        /\ UNCHANGED <<runPc, syncedCaches, stopCh>>
        /\ UNCHANGED <<worldVars, podVars, liveVars, cacheVars, pureVars, noteVars, listVars>>

\* ------------------------------------------------------- the pod tick

PodNames == {"cluster-0-0"}

LabelCluster == "operator.m3db.io/cluster"

AnnotationKeyPodIdentity == "operator.m3db.io/pod-identity"

\* The identity sources a cluster can configure; the pod's name always
\* contributes.
Sources == {"PodUID", "NodeName"}

Nodes == {"node-1", "node-2"}

PodFailPoints == {"none", "identity", "update"}

\* The empty map.
NoEntries == [k \in {} |-> ""]

Entry(k, v) == [x \in {k} |-> v]

\* m with key k set to v.
WithEntry(m, k, v) ==
    [x \in DOMAIN m \cup {k} |-> IF x = k THEN v ELSE m[x]]

\* The labels a pod can carry: none, a cluster's member, or the member of
\* a cluster that is not in the cache.
PodLabels ==
    {NoEntries, Entry(LabelCluster, ClusterName), Entry(LabelCluster, "gone")}

\* The annotations a pod is created with: none, or one of its template.
NewAnnotations == Entry("prometheus.io/scrape", "true")

NewPod(name, uid, lbls) ==
    [name |-> name, uid |-> uid, nodeName |-> "", labels |-> lbls,
     annotations |-> NewAnnotations]

UidString(uid) == "uid-" \o ToString(uid)

\* podIDProvider.Identity: the fields the sources select; no source selects
\* the name and the uid.
Identity(pod, sources) ==
    [name |-> pod.name,
     uid |-> IF sources = {} \/ "PodUID" \in sources
             THEN UidString(pod.uid) ELSE "",
     nodeName |-> IF "NodeName" \in sources THEN pod.nodeName ELSE ""]

JSONField(k, v, first) ==
    IF v = "" THEN ""
    ELSE (IF first THEN "" ELSE ",") \o "\"" \o k \o "\":\"" \o v \o "\""

\* podidentity.IdentityJSON: the fields in their fixed order, empty ones
\* left out.
IdentityJSON(id) ==
    "{" \o JSONField("name", id.name, TRUE)
        \o JSONField("uid", id.uid, id.name = "")
        \o JSONField("nodeName", id.nodeName, id.name = "" /\ id.uid = "")
        \o "}"

getClusterValue(pod) ==
    IF LabelCluster \in DOMAIN pod.labels
    THEN [cluster |-> pod.labels[LabelCluster], found |-> TRUE]
    ELSE [cluster |-> "", found |-> FALSE]

\* The state of one run of handlePodUpdate.
PodStart(pod, sources, f) ==
    [pod |-> pod, sources |-> sources, fail |-> f, idStr |-> "",
     calls |-> <<>>, updates |-> <<>>, err |-> "none", warned |-> FALSE,
     done |-> FALSE]

PodReturn(r) == [r EXCEPT !.done = TRUE]

PodReturnErr(r, e) == [r EXCEPT !.done = TRUE, !.err = e]

\* Mutant: every pod is processed, member of a cluster or not.
MemberGuard_Off(r) == r

\* Pods that are no member of a cluster are not processed.
MemberGuard(r) ==
    IF r.done \/ getClusterValue(r.pod).found THEN r ELSE PodReturn(r)

getParentCluster(r) ==
    IF getClusterValue(r.pod).cluster = ClusterName
    THEN [r EXCEPT !.calls = Append(@, "getCluster")]
    ELSE PodReturnErr([r EXCEPT !.calls = Append(@, "getCluster")],
                      "cluster not found")

ParentStep(r) == IF r.done THEN r ELSE getParentCluster(r)

IdentityOf(r) ==
    IF r.fail = "identity"
    THEN PodReturnErr([r EXCEPT !.calls = Append(@, "identity")],
                      "error getting pod ID")
    ELSE [r EXCEPT !.calls = Append(@, "identity"),
                   !.idStr = IdentityJSON(Identity(r.pod, r.sources))]

IdentityStep(r) == IF r.done THEN r ELSE IdentityOf(r)

HasIdentity(pod) == AnnotationKeyPodIdentity \in DOMAIN pod.annotations

\* Mutant: an annotation that differs from the computed identity is
\* treated as missing.
AnnotatedReturn_Overwrite(r) ==
    IF r.done THEN r
    ELSE IF HasIdentity(r.pod)
            /\ r.pod.annotations[AnnotationKeyPodIdentity] = r.idStr
    THEN PodReturn(r)
    ELSE r

\* An annotated pod is left alone; a mismatch is logged.
AnnotatedReturn(r) ==
    IF r.done THEN r
    ELSE IF HasIdentity(r.pod)
    THEN PodReturn([r EXCEPT !.warned =
             r.pod.annotations[AnnotationKeyPodIdentity] # r.idStr])
    ELSE r

\* Mutant: the update replaces the pod's annotations by the identity.
Annotated_Alone(pod, idStr) ==
    [pod EXCEPT !.annotations = Entry(AnnotationKeyPodIdentity, idStr)]

\* pod.Annotations[AnnotationKeyPodIdentity] = idStr on the copy of the pod.
Annotated(pod, idStr) ==
    [pod EXCEPT !.annotations =
        WithEntry(@, AnnotationKeyPodIdentity, idStr)]

UpdatePod(r) ==
    IF r.fail = "update"
    THEN PodReturnErr([r EXCEPT !.calls = Append(@, "update")],
                      "error updating pod annotation")
    ELSE PodReturn([r EXCEPT !.calls = Append(@, "update"),
                             !.updates = Append(@, Annotated(r.pod, r.idStr)),
                             !.pod = Annotated(r.pod, r.idStr)])

AnnotateStep(r) == IF r.done THEN r ELSE UpdatePod(r)

handlePodUpdate(pod, sources, f) ==
    AnnotateStep(AnnotatedReturn(IdentityStep(ParentStep(MemberGuard(
        PodStart(pod, sources, f))))))

NoPodTick ==
    [ran |-> FALSE, pod |-> "none", pre |-> NoEntries, idStr |-> "",
     calls |-> <<>>, updates |-> <<>>, err |-> "none", warned |-> FALSE]

\* A pod worker runs handlePodUpdate for a pod.
PodTick ==
    \E p \in PodNames, f \in PodFailPoints :
        \E r \in {handlePodUpdate(pods[p], podIdentitySources, f)} :
            /\ pods' = [pods EXCEPT ![p] = r.pod]
            /\ podTick' = [ran |-> TRUE, pod |-> p, pre |-> pods[p],
                           idStr |-> r.idStr, calls |-> r.calls,
                           updates |-> r.updates, err |-> r.err,
                           warned |-> r.warned]
            /\ UNCHANGED podIdentitySources
            /\ UNCHANGED <<worldVars, queueVars, liveVars, cacheVars, pureVars, noteVars, listVars>>

\* The scheduler binds a pod to a node.
PodScheduled ==
    \E p \in PodNames, n \in Nodes :
        /\ pods[p].nodeName = ""
        /\ pods' = [pods EXCEPT ![p].nodeName = n]
        /\ podTick' = NoPodTick
        /\ UNCHANGED podIdentitySources
        /\ UNCHANGED <<worldVars, queueVars, liveVars, cacheVars, pureVars, noteVars, listVars>>

\* A pod is deleted and its StatefulSet creates it again under its name.
PodRecreated ==
    \E p \in PodNames :
        /\ pods[p].uid < MaxUid
        /\ pods' = [pods EXCEPT ![p] =
                       NewPod(p, pods[p].uid + 1, pods[p].labels)]
        /\ podTick' = NoPodTick
        /\ UNCHANGED podIdentitySources
        /\ UNCHANGED <<worldVars, queueVars, liveVars, cacheVars, pureVars, noteVars, listVars>>

\* The user edits the cluster's identity sources.
SourcesChanged ==
    \E srcs \in SUBSET Sources :
        /\ srcs # podIdentitySources
        /\ podIdentitySources' = srcs
        /\ podTick' = NoPodTick
        /\ UNCHANGED pods
        /\ UNCHANGED <<worldVars, queueVars, liveVars, cacheVars, pureVars, noteVars, listVars>>

\* ------------------------------------------- the informer cache's objects

\* The memory the cached objects' reference fields point to: the cluster's
\* Spec.IsolationGroups and Status.Conditions arrays, the StatefulSet's
\* Spec.Replicas target and the pod's Annotations map.
CacheCells ==
    {"cluster.isolationGroups", "cluster.conditions", "set.replicas",
     "pod.annotations"}

\* The memory a tick allocates: the fields of its copies and the isoGroups
\* slice it sorts.
CopyCells ==
    {"copy.isolationGroups", "copy.conditions", "copy.replicas",
     "copy.annotations", "isoGroups"}

\* What a reader of the cached objects sees.
Observed(h) == [c \in CacheCells |-> h[c]]

\* The tick returned: its copies are garbage.
Collected(h) == [c \in CacheCells \cup CopyCells |->
                    IF c \in CopyCells THEN <<>> ELSE h[c]]

Condition(t, s) == [type |-> t, status |-> s]

\* M3DBCluster.DeepCopyInto: ObjectMeta and Spec are copied by their own
\* DeepCopyInto, and ClusterSpec.DeepCopyInto gives IsolationGroups a new
\* array; Status is assigned (out.Status = in.Status), so the copy's
\* Status.Conditions is the cached object's array.
DeepCopyCluster(h) ==
    [heap |-> [h EXCEPT !["copy.isolationGroups"] =
                            h["cluster.isolationGroups"]],
     isolationGroups |-> "copy.isolationGroups",
     conditions |-> "cluster.conditions"]

\* isoGroups := make(...); copy(isoGroups, cluster.Spec.IsolationGroups);
\* sort.Sort(isoGroups)
SortCopy(o) ==
    [o EXCEPT !.heap["isoGroups"] =
                  SortIsolationGroups(o.heap[o.isolationGroups])]

HasCondition(arr, t) == \E i \in 1..Len(arr) : arr[i].type = t

HasConditionTrue(arr, t) ==
    \E i \in 1..Len(arr) : arr[i] = Condition(t, "True")

\* M3DBStatus.UpdateCondition: a condition of the type is overwritten where
\* it stands; a new type is appended, which gives the slice a new array.
UpdateCondition(o, cond) ==
    IF HasCondition(o.heap[o.conditions], cond.type)
    THEN [o EXCEPT !.heap[o.conditions] =
             [i \in 1..Len(@) |->
                 IF @[i].type = cond.type THEN cond ELSE @[i]]]
    ELSE [o EXCEPT !.heap["copy.conditions"] =
                       Append(o.heap[o.conditions], cond),
                   !.conditions = "copy.conditions"]

NoWrite == Condition("none", "none")

\* The status writes a cluster tick can make, given the conditions it read:
\* PlacementInitialized after the placement init, PodBootstrapping when an
\* instance is added, and its clearing by reconcileBootstrappingStatus.
StatusWrites(arr) ==
    {NoWrite}
    \cup (IF HasConditionTrue(arr, "PlacementInitialized") THEN {}
          ELSE {Condition("PlacementInitialized", "True")})
    \cup (IF HasConditionTrue(arr, "PlacementInitialized")
             /\ ~HasConditionTrue(arr, "PodBootstrapping")
          THEN {Condition("PodBootstrapping", "True")} ELSE {})
    \cup (IF HasConditionTrue(arr, "PodBootstrapping")
          THEN {Condition("PodBootstrapping", "False")} ELSE {})

NoCacheTick ==
    [ran |-> FALSE, kind |-> "none", pre |-> <<>>,
     wrote |-> [cell |-> "none", value |-> <<>>]]

\* handleClusterUpdate on the cached cluster: the copy, the sorted slice and
\* the status write of the branch the tick takes.
ClusterCacheTick ==
    \E w \in StatusWrites(heap["cluster.conditions"]) :
    \E o \in {SortCopy(DeepCopyCluster(heap))} :
    \E u \in {IF w = NoWrite THEN o ELSE UpdateCondition(o, w)} :
        /\ heap' = Collected(u.heap)
        /\ cacheTick' =
               [ran |-> TRUE, kind |-> "cluster", pre |-> Observed(heap),
                wrote |-> IF w = NoWrite THEN NoCacheTick.wrote
                          ELSE [cell |-> "cluster.conditions",
                                value |-> u.heap[u.conditions]]]
        /\ UNCHANGED <<worldVars, queueVars, podVars, liveVars, pureVars, noteVars, listVars>>

\* getChildStatefulSets hands the tick sts.DeepCopy(); the resize assigns
\* set.Spec.Replicas = pointer.Int32Ptr(newCount) on it and updates the set.
SetCacheTick ==
    \E newCount \in 0..MaxInstances :
    \E h \in {[heap EXCEPT !["copy.replicas"] = heap["set.replicas"]]} :
    \E u \in {[h EXCEPT !["copy.replicas"] = <<newCount>>]} :
        /\ heap["set.replicas"] # <<newCount>>
        /\ heap' = Collected(u)
        /\ cacheTick' =
               [ran |-> TRUE, kind |-> "set", pre |-> Observed(heap),
                wrote |-> [cell |-> "set.replicas",
                           value |-> u["copy.replicas"]]]
        /\ UNCHANGED <<worldVars, queueVars, podVars, liveVars, pureVars, noteVars, listVars>>

\* handlePodUpdate: pod = pod.DeepCopy(); the annotation is set on the
\* copy's map, which is made when the pod has none.
PodCacheTick ==
    \E id \in {"{name}"} :
    \E h \in {[heap EXCEPT !["copy.annotations"] = heap["pod.annotations"]]} :
    \E u \in {[h EXCEPT !["copy.annotations"] =
                  Append(@, [key |-> "podIdentity", value |-> id])]} :
        /\ heap["pod.annotations"] = <<>>
        /\ heap' = Collected(u)
        /\ cacheTick' =
               [ran |-> TRUE, kind |-> "pod", pre |-> Observed(heap),
                wrote |-> [cell |-> "pod.annotations",
                           value |-> u["copy.annotations"]]]
        /\ UNCHANGED <<worldVars, queueVars, podVars, liveVars, pureVars, noteVars, listVars>>

\* The informer stores the object the platform returned for the tick's
\* update: a newly decoded object, with arrays of its own.
InformerDelivers ==
    /\ cacheTick.wrote.cell # "none"
    /\ heap' = [heap EXCEPT ![cacheTick.wrote.cell] = cacheTick.wrote.value]
    /\ cacheTick' = NoCacheTick
    /\ UNCHANGED <<worldVars, queueVars, podVars, liveVars, pureVars, noteVars, listVars>>

\* The user reorders the isolation groups, or the pod is re-created: the
\* informer stores the new object.
CacheObjectReplaced ==
    /\ \/ \E p \in Perms(3) :
            /\ heap["cluster.isolationGroups"] #
                   [i \in 1..3 |-> [name |-> NameOrder[p[i]], numInstances |-> 1]]
            /\ heap' = [heap EXCEPT !["cluster.isolationGroups"] =
                   [i \in 1..3 |-> [name |-> NameOrder[p[i]], numInstances |-> 1]]]
       \/ /\ heap["pod.annotations"] # <<>>
          /\ heap' = [heap EXCEPT !["pod.annotations"] = <<>>]
    /\ cacheTick' = NoCacheTick
    /\ UNCHANGED <<worldVars, queueVars, podVars, liveVars, pureVars, noteVars, listVars>>

ColdCache ==
    /\ heap = [c \in CacheCells \cup CopyCells |->
                 CASE c = "cluster.isolationGroups" ->
                          [i \in 1..3 |-> [name |-> NameOrder[4 - i],
                                           numInstances |-> 1]]
                   [] c = "set.replicas" -> <<1>>
                   [] OTHER -> <<>>]
    /\ cacheTick = NoCacheTick

InitPods ==
    /\ pods = [p \in PodNames |->
                  NewPod(p, 1, Entry(LabelCluster, ClusterName))]
    /\ podIdentitySources = {}
    /\ podTick = NoPodTick

\* New: the queues are made, no goroutine runs yet.
InitQueues ==
    /\ runPc = "init"
    /\ syncedCaches = {}
    /\ stopCh = FALSE
    /\ wq = [q \in Queues |-> NewQueue]
    /\ workers = [q \in Queues |-> [w \in Workers |->
                     [state |-> "notStarted", key |-> "none"]]]
    /\ last = NoLast

Init ==
    /\ cluster \in InitialClusters
    /\ ColdWorld
    /\ InitQueues
    /\ InitPods
    /\ userEdits = 0
    /\ ColdCache
    /\ notifications = {}
    /\ listed = ListerKeys
    /\ decided = NoDecision

Next ==
    \/ ClusterTick
    \/ StatefulSetProgress
    \/ InstanceAvailable
    \/ InstanceLeft
    \/ UserScales
    \/ ServiceDeleted

vars == <<worldVars, queueVars, podVars, liveVars, cacheVars, pureVars, noteVars, listVars>>

Spec == Init /\ [][Next]_vars

\* A cluster with a valid spec that is left to converge: no call fails, the
\* cluster key is enqueued again on every change and on resync so that ticks
\* keep coming, the platform brings the sets' pods up and down, and the DB
\* instances finish bootstrapping and leaving.
ValidClusters ==
    {c \in InitialClusters :
        /\ Len(c.isolationGroups) > 0
        /\ c.replicationFactor = Len(c.isolationGroups)
        /\ c.numberOfShards > 0}

InitLive ==
    /\ cluster \in ValidClusters
    /\ ColdWorld
    /\ InitQueues
    /\ InitPods
    /\ userEdits = 0
    /\ ColdCache
    /\ notifications = {}
    /\ listed = ListerKeys
    /\ decided = NoDecision

NextLive ==
    \/ TickNoFail
    \/ StatefulSetProgress
    \/ InstanceAvailable
    \/ InstanceLeft
    \/ UserRescales

\* A tick would change something: ENABLED <<TickNoFail>>_vars.
TickPending ==
    \E ord \in Perms(Len(sets)) :
        \E r \in {handleClusterUpdate(cluster, services, sets, placement,
                                      namespaces, "none", ord)} :
            <<r.cluster, r.services, r.sets, r.placement, r.namespaces,
              TickRecord(r)>> # worldVars

\* WF_vars(TickNoFail), with its enabling condition written out.
FairTicks == []<>(~TickPending) \/ []<><<TickNoFail>>_vars

SpecLive ==
    /\ InitLive
    /\ [][NextLive]_vars
    /\ FairTicks
    /\ WF_vars(StatefulSetProgress)
    /\ WF_vars(InstanceAvailable)
    /\ WF_vars(InstanceLeft)

InitQueue ==
    /\ cluster = [isolationGroups |-> <<>>, namespaces |-> <<>>,
                  replicationFactor |-> 0, numberOfShards |-> 0,
                  placementInitialized |-> FALSE]
    /\ ColdWorld
    /\ InitQueues
    /\ InitPods
    /\ userEdits = 0
    /\ ColdCache
    /\ notifications = {}
    /\ listed = ListerKeys
    /\ decided = NoDecision

NextQueue ==
    \/ CacheSyncs
    \/ StopClosed
    \/ Enqueue
    \/ DelayElapsed
    \/ RunStartsWorkers
    \/ RunSyncFails
    \/ RunStops
    \/ WorkerGets
    \/ WorkerSyncs

SpecQueue == InitQueue /\ [][NextQueue]_vars

\* ------------------------------------------------- claims about the tick

\* What the last tick saw.
PreSets == tick.pre.sets
PreGroups == tick.pre.cluster.isolationGroups
PreSorted == SortIsolationGroups(PreGroups)
PreAllReady == \A k \in 1..Len(PreSets) : PreSets[k].replicas = PreSets[k].ready
PreInPlacement(g) ==
    Cardinality({inst \in tick.pre.placement : inst.group = g})
PreDesired(g) == GetByName(PreGroups, g).numInstances

PlacementOps == {"placementInit", "placementAdd", "placementRemove"}
PlacementWrites(t) == SelectSeq(t.adminWrites, LAMBDA w : w.op \in PlacementOps)

C3_UnreadyNoWrite ==
    (tick.ran /\ ~PreAllReady) =>
        /\ tick.svcCreates = <<>>
        /\ tick.stsWrites = <<>>
        /\ tick.adminWrites = <<>>

\* C3 amended: a tick that finds a child set with declared replicas
\* different from ready replicas issues no StatefulSet, namespace, placement
\* or status write and leaves sets, placement and namespaces as they were;
\* it still creates the services that are missing, which it does before it
\* looks at the sets.
C3_UnreadyNoSetOrAdminWrite ==
    (tick.ran /\ ~PreAllReady) =>
        /\ tick.stsWrites = <<>>
        /\ tick.adminWrites = <<>>
        /\ tick.statusWrites = <<>>
        /\ sets = tick.pre.sets
        /\ placement = tick.pre.placement
        /\ namespaces = tick.pre.namespaces
        /\ cluster = tick.pre.cluster

C3_Witness ==
    tick.ran /\ ~PreAllReady /\ tick.branch = "waitReady"
        /\ tick.svcCreates # <<>>

\* C4: a tick none of whose calls fails, with k children that are all ready
\* and n > k isolation groups, issues exactly one StatefulSet write, the
\* create of <cluster>-<k> for the k-th group in name order with that
\* group's numInstances, issues no admin write and returns, leaving k+1
\* children; and a create is issued by no other tick.
C4_Applies ==
    /\ tick.ran
    /\ tick.branch # "error"
    /\ PreAllReady
    /\ Len(PreSets) < Len(PreGroups)

C5_PlacementBeforeShrink ==
    tick.ran =>
        \A k \in 1..Len(PreSets) :
            /\ (/\ HasGroup(PreGroups, PreSets[k].group)
                /\ PreSets[k].replicas > PreDesired(PreSets[k].group)
                /\ PreInPlacement(PreSets[k].group)
                      > PreDesired(PreSets[k].group))
               => /\ sets[k].replicas >= PreSets[k].replicas
                  /\ (tick.acted = PreSets[k].name /\ tick.branch # "error")
                     => /\ tick.branch = "shrunk"
                        /\ tick.stsWrites = <<>>
                        /\ tick.adminWrites =
                              <<[op |-> "placementRemove",
                                 id |-> InstanceToRemove(tick.pre.placement,
                                                         PreSets[k])]>>
            /\ sets[k].replicas < PreSets[k].replicas
               => /\ HasGroup(PreGroups, PreSets[k].group)
                  /\ PreInPlacement(PreSets[k].group)
                        <= PreDesired(PreSets[k].group)

C5_Witness ==
    /\ tick.ran
    /\ tick.branch = "shrunk"
    /\ \E k \in 1..Len(PreSets) :
          /\ tick.acted = PreSets[k].name
          /\ PreSets[k].replicas > PreDesired(PreSets[k].group)

\* The calls a tick made to the DB's admin API, the failed one included.
AdminCalls ==
    {"reconcileNamespaces", "placementInit", "placementGet", "placementAdd",
     "placementRemove"}
AdminCallsOf(t) == (t.reached \cup {t.err}) \cap AdminCalls

\* C17: a tick whose ensureServices call fails returns that error and
\* issues no StatefulSet, namespace, placement or status write; and
\* a tick that issues a StatefulSet create has had its ensureServices call
\* succeed, so that every required service exists when the create is issued.
C17_ServicesBeforeSets ==
    /\ (tick.ran /\ tick.err = "ensureServices") =>
          /\ tick.branch = "error"
          /\ tick.stsWrites = <<>>
          /\ tick.adminWrites = <<>>
          /\ tick.statusWrites = <<>>
          /\ AdminCallsOf(tick) = {}
          /\ <<cluster, sets, placement, namespaces>> =
                <<tick.pre.cluster, tick.pre.sets, tick.pre.placement,
                  tick.pre.namespaces>>
    /\ (tick.ran /\ \E i \in 1..Len(tick.stsWrites) :
                       tick.stsWrites[i].op = "create") =>
          /\ "ensureServices" \in tick.reached
          /\ Range(ServiceNames) \subseteq
                 tick.pre.services \cup Range(tick.svcCreates)

\* C17's case: the ensureServices call fails in a tick that had a set to
\* create.
C17_Witness ==
    /\ tick.ran
    /\ tick.err = "ensureServices"
    /\ PreAllReady
    /\ Len(PreSets) < Len(PreGroups)
    /\ Len(PreSets) > 0

\* C18: a tick that finds fewer or more child sets than isolation groups,
\* or a child whose declared replicas differ from its ready replicas, makes
\* no call to the DB's admin API: no namespace reconciliation, no placement
\* initialization or other placement call, and no status write.
C18_AdminOnlyWhenAllReady ==
    (tick.ran /\ (Len(PreSets) # Len(PreGroups) \/ ~PreAllReady)) =>
        /\ AdminCallsOf(tick) = {}
        /\ tick.adminWrites = <<>>
        /\ tick.statusWrites = <<>>
        /\ placement = tick.pre.placement
        /\ namespaces = tick.pre.namespaces

\* C18's case: a group is missing while every child is ready, in a cluster
\* that declares a namespace the DB lacks and has no placement yet.
C18_Witness ==
    /\ tick.ran
    /\ PreAllReady
    /\ Len(PreSets) = 1
    /\ Len(PreGroups) = 2
    /\ tick.branch = "created"
    /\ tick.pre.cluster.namespaces # <<>>
    /\ tick.pre.namespaces = {}

\* C19: a tick that finds an instance of the placement not available issues
\* no placement add, no placement removal, no StatefulSet update and no
\* clearing of bootstrap markers; unless one of its calls fails it returns
\* nil.
C19_WaitsForAvailability ==
    (tick.ran /\ \E inst \in tick.pre.placement :
                    inst.state # "available") =>
        /\ PlacementWrites(tick) = <<>>
        /\ tick.stsWrites = <<>>
        /\ "PodBootstrapping" \notin Range(tick.statusWrites)
        /\ placement = tick.pre.placement
        /\ sets = tick.pre.sets
        /\ tick.branch \in {"waitAvailable", "waitReady", "error"}
        /\ tick.branch # "error" => tick.err = "none"
        /\ tick.branch = "error" =>
               tick.err \in {"ensureServices", "reconcileNamespaces",
                             "placementGet"}

\* C19's case: the sets are ready and in the placement, the spec asks for a
\* resize, and the tick waits because an instance is still bootstrapping.
C19_Witness ==
    /\ tick.ran
    /\ tick.branch = "waitAvailable"
    /\ PreAllReady
    /\ \E k \in 1..Len(PreSets) :
          PreSets[k].replicas # PreDesired(PreSets[k].group)

\* The loop body on every combination of desired, current and inPlacement.
InitResize ==
    /\ cluster = NoTick.pre.cluster
    /\ ColdWorld
    /\ InitQueues
    /\ InitPods
    /\ userEdits = 0
    /\ ColdCache
    /\ notifications = {}
    /\ listed = ListerKeys
    /\ decided \in LoopBodyInputs

SpecResize == InitResize /\ [][LoopBody]_vars

\* C20: the loop body resizes a set only when its declared replicas differ
\* from the desired count; the new count is current + 1 when current is
\* below desired and current - 1 when it is above, which is one step closer
\* to desired, not beyond it, and not below zero.
C20_ResizeOneStep ==
    decided.decision = "resize" =>
        /\ decided.current # decided.desired
        /\ decided.current < decided.desired =>
               /\ decided.newCount = decided.current + 1
               /\ decided.newCount <= decided.desired
        /\ decided.current > decided.desired =>
               /\ decided.newCount = decided.current - 1
               /\ decided.newCount >= decided.desired
        /\ decided.newCount >= 0

\* C20's case: a set is resized down, to its last replica.
C20_Witness ==
    /\ decided.decision = "resize"
    /\ decided.current > decided.desired
    /\ decided.newCount = 0

\* C13: a tick on a cluster whose spec has no isolation groups, whose
\* ensureServices call does not fail, leaves every required service in
\* place and returns nil; it issues no StatefulSet, namespace, placement or
\* status write. When ensureServices fails it returns that error, also
\* without any of those writes.
C13_NoGroupsOnlyServices ==
    (tick.ran /\ PreGroups = <<>>) =>
        /\ tick.stsWrites = <<>>
        /\ tick.adminWrites = <<>>
        /\ tick.statusWrites = <<>>
        /\ sets = tick.pre.sets
        /\ placement = tick.pre.placement
        /\ namespaces = tick.pre.namespaces
        /\ \/ /\ tick.branch = "noGroups"
              /\ tick.err = "none"
              /\ services = Range(ServiceNames)
              /\ Range(tick.svcCreates) = Range(ServiceNames) \ tick.pre.services
           \/ /\ tick.branch = "error"
              /\ tick.err = "ensureServices"
              /\ services = tick.pre.services

C13_Witness ==
    /\ tick.ran
    /\ PreGroups = <<>>
    /\ tick.branch = "noGroups"
    /\ Len(tick.svcCreates) = 1

\* C14 as stated: a tick on a cluster whose spec has no isolation groups,
\* none of whose calls fails, returns ErrIsolationGroupsMissing and emits
\* the warning event IsolationGroupsMissing.
C14_NoGroupsTypedError ==
    (tick.ran /\ PreGroups = <<>> /\ tick.err # "ensureServices") =>
        /\ tick.err = "no isolation groups  specified"
        /\ "IsolationGroupsMissing" \in Range(tick.events)

\* Every isolation group has its set, and desired, declared replicas and
\* instances in the placement agree for it.
AllGroupsConverged ==
    /\ Len(sets) = Len(cluster.isolationGroups)
    /\ \A i \in 1..Len(cluster.isolationGroups) :
          \E k \in 1..Len(sets) :
              /\ sets[k].group = cluster.isolationGroups[i].name
              /\ sets[k].replicas = cluster.isolationGroups[i].numInstances
              /\ Cardinality(instancesInIsoGroup(placement,
                                                 sets[k].group))
                    = sets[k].replicas

C11_Converged ==
    /\ tick.ran
    /\ tick.branch = "synced"
    /\ "cluster updated and synced" \in Range(tick.events)
    /\ AllGroupsConverged

\* C11: a cluster with a valid spec that is left to converge (fair workers
\* and resync, sets that become ready, instances that become available or
\* finish leaving, no failing call) reaches, after its cold start and again
\* after every edit of the user, a tick that emits "cluster updated and
\* synced" with desired = declared replicas = instances in placement for
\* every isolation group.
C11_EventuallySynced == []<>C11_Converged

\* C11's case: the cluster has converged again after the user's edits, one
\* of which took a group down to no instance.
C11_Witness ==
    /\ C11_Converged
    /\ userEdits = MaxEdits
    /\ \E k \in 1..Len(sets) : sets[k].replicas = 0


InitPod ==
    /\ cluster = [isolationGroups |-> <<>>, namespaces |-> <<>>,
                  replicationFactor |-> 0, numberOfShards |-> 0,
                  placementInitialized |-> FALSE]
    /\ ColdWorld
    /\ InitQueues
    /\ pods \in [PodNames -> {NewPod(p, 1, l) : p \in PodNames, l \in PodLabels}]
    /\ \A p \in PodNames : pods[p].name = p
    /\ podIdentitySources \in SUBSET Sources
    /\ podTick = NoPodTick
    /\ userEdits = 0
    /\ ColdCache
    /\ notifications = {}
    /\ listed = ListerKeys
    /\ decided = NoDecision

NextPod ==
    \/ PodTick
    \/ PodScheduled
    \/ PodRecreated
    \/ SourcesChanged

SpecPod == InitPod /\ [][NextPod]_vars

\* --------------------------------------- claims about queues and workers

Handling(q, w, key) ==
    workers[q][w].state = "handling" /\ workers[q][w].key = key

Pending(Q, key) ==
    key \in Q.waiting \/ key \in Q.dirty \/ key \in Range(Q.queue)

\* C6: on either queue, no two workers run the handler for the same key at
\* the same time, however enqueues of the key interleave with processing.
C6_NoOverlapPerKey ==
    \A q \in Queues : \A key \in Keys(q) : \A w1, w2 \in Workers :
        Handling(q, w1, key) /\ Handling(q, w2, key) => w1 = w2

\* C6's case: a key is enqueued and due again while one worker handles it
\* and another worker of the same queue is free to take work.
C6_Witness ==
    \E q \in Queues : \E key \in Keys(q) : \E w1, w2 \in Workers :
        /\ Handling(q, w1, key)
        /\ workers[q][w2].state = "idle"
        /\ key \in wq[q].dirty
        /\ key \in wq[q].processing

\* C7: when the handler of a dequeued key returns an error, the worker has
\* put the key back: it waits out its backoff or is due to be handed out
\* again, without a further informer event.
C7_ErrorRequeues ==
    last.result = "error" => Pending(wq[last.q], last.key)

\* C8: once the stop channel is closed and Run has returned, the cluster
\* queue and the pod queue are both shut down, so that every worker leaves
\* its loop.
C8_StopShutsDownBothQueues ==
    runPc = "stopped" => \A q \in Queues : wq[q].shuttingDown

\* C9: a worker runs (is started, dequeues, handles) only once the cluster,
\* StatefulSet and pod caches have all synced, and when the wait for the
\* caches fails Run returns the error with no worker started.
C9_WorkersOnlyAfterSync ==
    /\ \A q \in Queues : \A w \in Workers :
           workers[q][w].state # "notStarted" => syncedCaches = Caches
    /\ runPc = "failed" =>
           \A q \in Queues : \A w \in Workers :
               workers[q][w].state = "notStarted"

\* C9's case: the caches have synced, Run has started the workers and one
\* of them handles a key.
C9_Witness ==
    \E q \in Queues : \E w \in Workers :
        /\ workers[q][w].state = "handling"
        /\ syncedCaches = Caches

\* ------------------------------------------------ claims about the pod tick

\* C10: a pod tick for a pod that carries the identity annotation issues no
\* pod update and leaves the annotation as it was, also when the identity
\* it computed differs from the annotated one.
C10_AnnotationSticky ==
    (podTick.ran /\ HasIdentity(podTick.pre)) =>
        /\ podTick.updates = <<>>
        /\ pods[podTick.pod] = podTick.pre

\* C10's case: the tick computed an identity that differs from the one the
\* pod is annotated with.
C10_Witness ==
    /\ podTick.ran
    /\ HasIdentity(podTick.pre)
    /\ podTick.err = "none"
    /\ podTick.idStr # podTick.pre.annotations[AnnotationKeyPodIdentity]
    /\ podTick.idStr # ""

\* C15: a pod tick for a pod without the cluster label returns nil without
\* any call: it looks up no cluster, computes no identity, updates no pod
\* and leaves the pod as it was.
C15_OrphanPodNoCalls ==
    (podTick.ran /\ ~getClusterValue(podTick.pre).found) =>
        /\ podTick.calls = <<>>
        /\ podTick.updates = <<>>
        /\ podTick.idStr = ""
        /\ podTick.err = "none"
        /\ ~podTick.warned
        /\ pods[podTick.pod] = podTick.pre

C15_Witness ==
    /\ podTick.ran
    /\ ~getClusterValue(podTick.pre).found
    /\ ~HasIdentity(podTick.pre)
    /\ podTick.pre.nodeName # ""

\* What the last tick saw of its k-th set: the set's declared replicas, the
\* numInstances of its group and its group's instances in the placement.
PreCurrent(k) == PreSets[k].replicas
PreWanted(k) == PreDesired(PreSets[k].group)
PrePlaced(k) == PreInPlacement(PreSets[k].group)

\* The set is converged: the loop body continues with the next set.
PreConverged(k) ==
    PreWanted(k) = PreCurrent(k) /\ PreCurrent(k) = PrePlaced(k)

\* C21: a tick adds a set's pods to the placement exactly when the set it
\* acts on has declared replicas equal to desired and fewer instances in the
\* placement than declared replicas: an add is never issued for a set whose
\* declared replicas differ from desired, the tick that adds issues no other
\* placement write and no StatefulSet write, a tick that acts on such a set
\* issues the add unless the add itself fails, and no tick passes such a set
\* by to end as synced.
C21_ExpandExactly ==
    tick.ran =>
        /\ \A i \in 1..Len(tick.adminWrites) :
              tick.adminWrites[i].op = "placementAdd" =>
                  /\ tick.branch = "expanded"
                  /\ tick.stsWrites = <<>>
                  /\ PlacementWrites(tick) = <<tick.adminWrites[i]>>
                  /\ tick.acted = tick.adminWrites[i].id
                  /\ \E k \in 1..Len(PreSets) :
                        /\ PreSets[k].name = tick.acted
                        /\ PreCurrent(k) = PreWanted(k)
                        /\ PrePlaced(k) < PreCurrent(k)
        /\ \A k \in 1..Len(PreSets) :
              (/\ tick.acted = PreSets[k].name
               /\ PreCurrent(k) = PreWanted(k)
               /\ PrePlaced(k) < PreCurrent(k)
               /\ tick.err # "placementAdd")
              => /\ tick.branch = "expanded"
                 /\ PlacementWrites(tick) =
                       <<[op |-> "placementAdd", id |-> PreSets[k].name]>>
        /\ tick.branch = "synced" =>
              \A k \in 1..Len(PreSets) :
                  ~(PreCurrent(k) = PreWanted(k) /\ PrePlaced(k) < PreCurrent(k))

\* C21's case: the tick expands one set while another set still has
\* declared replicas different from desired.
C21_Witness ==
    /\ tick.ran
    /\ tick.branch = "expanded"
    /\ \E k \in 1..Len(PreSets) :
          /\ PreSets[k].name # tick.acted
          /\ PreCurrent(k) # PreWanted(k)

\* C22 as stated: the set a tick's scaling step acts on belongs to the first
\* isolation group, in name order, that is not converged, whatever the
\* order in which the lister returned the sets.
C22_SortedGroupOrder ==
    (tick.ran /\ tick.acted # "") =>
        \E k \in 1..Len(PreSets) :
            /\ PreSets[k].name = tick.acted
            /\ \A j \in 1..Len(PreSets) :
                  NameRank(PreSets[j].group) < NameRank(PreSets[k].group)
                      => PreConverged(j)

\* What the code does instead: the scaling step examines the child sets in
\* the order in which the lister returned them, and the set the tick acts on
\* is the first set in that order that is not converged.
ActsOnFirstInListerOrder ==
    (tick.ran /\ tick.acted # "") =>
        \E i \in 1..Len(tick.order) :
            /\ PreSets[tick.order[i]].name = tick.acted
            /\ ~PreConverged(tick.order[i])
            /\ \A j \in 1..(i - 1) : PreConverged(tick.order[j])

\* ------------------------------------- the cluster worker and its ticks

ClusterKey == "default/" \o ClusterName

\* The writes of a tick that change an object an informer watches: the
\* status update of the cluster and the creates and updates of its sets.
TickNotifications(r) ==
    (IF r.statusWrites # <<>>
     THEN {[kind |-> "cluster", key |-> ClusterKey]} ELSE {})
    \cup {[kind |-> "statefulSet", key |-> "default/" \o r.stsWrites[i].name] :
             i \in 1..Len(r.stsWrites)}

\* Mutant: an update of the cluster object is not enqueued.
OnUpdate_ClusterIgnored(W, kind, key) ==
    IF kind = "cluster" THEN W ELSE OnAddOrUpdate(W, kind, key)

\* UpdateFunc of the informers for an object whose resource version changed.
OnUpdate(W, kind, key) == OnAddOrUpdate(W, kind, key)

\* A cluster worker that holds the key runs handleClusterEvent, no call of
\* which fails, and the closure ends: Forget on nil, the deferred Done.
WorkerTicks ==
    \E w \in Workers, ord \in Perms(Len(sets)) :
      \E r \in {handleClusterUpdate(cluster, services, sets, placement,
                                    namespaces, "none", ord)} :
        /\ workers["cluster"][w].state = "handling"
        /\ cluster' = r.cluster
        /\ services' = r.services
        /\ sets' = r.sets
        /\ placement' = r.placement
        /\ namespaces' = r.namespaces
        /\ tick' = TickRecord(r)
        /\ wq' = [wq EXCEPT !["cluster"] =
                     AfterHandler(@, workers["cluster"][w].key,
                                  r.err = "none")]
        /\ workers' = [workers EXCEPT !["cluster"][w] =
                          [state |-> "idle", key |-> "none"]]
        /\ last' = [q |-> "cluster", key |-> workers["cluster"][w].key,
                    result |-> IF r.err = "none" THEN "ok" ELSE "error"]
        /\ notifications' = notifications \cup TickNotifications(r)
        /\ UNCHANGED <<runPc, syncedCaches, stopCh>>
        /\ UNCHANGED <<podVars, liveVars, cacheVars, pureVars, listVars>>

\* An informer reports a change: its UpdateFunc runs.
NotificationDelivered ==
    \E n \in notifications :
        /\ wq' = OnUpdate(wq, n.kind, n.key)
        /\ notifications' = notifications \ {n}
        /\ last' = NoLast
        /\ UNCHANGED <<runPc, syncedCaches, stopCh, workers>>
        /\ UNCHANGED <<worldVars, podVars, liveVars, cacheVars, pureVars, listVars>>

\* The platform brings a set's pods up or down, one pod at a time; the
\* set's status changes, which its informer will report.
StatefulSetReported ==
    \E k \in 1..Len(sets) :
        /\ sets[k].ready # sets[k].replicas
        /\ sets' = [sets EXCEPT ![k].ready =
                       IF @ < sets[k].replicas THEN @ + 1 ELSE @ - 1]
        /\ notifications' = notifications \cup
               {[kind |-> "statefulSet", key |-> "default/" \o sets[k].name]}
        /\ UNCHANGED <<cluster, services, placement, namespaces, tick>>
        /\ UNCHANGED <<queueVars, podVars, liveVars, cacheVars, pureVars, listVars>>

\* Run has started the workers and the informer has reported the cluster
\* the user created.
InitRequeue ==
    /\ cluster \in ValidClusters
    /\ ColdWorld
    /\ runPc = "running"
    /\ syncedCaches = Caches
    /\ stopCh = FALSE
    /\ wq = [q \in Queues |->
               IF q = "cluster" THEN QueueAddRateLimited(NewQueue, ClusterKey)
               ELSE NewQueue]
    /\ workers = [q \in Queues |-> [w \in Workers |->
                     [state |-> "idle", key |-> "none"]]]
    /\ last = NoLast
    /\ InitPods
    /\ userEdits = 0
    /\ ColdCache
    /\ decided = NoDecision
    /\ notifications = {}
    /\ listed = ListerKeys

NextRequeue ==
    \/ WorkerGets
    \/ WorkerTicks
    \/ DelayElapsed
    \/ NotificationDelivered
    \/ StatefulSetReported
    \/ InstanceAvailable

\* A worker holds the cluster key: its tick is due.
WorkerHolds == \E w \in Workers : workers["cluster"][w].state = "handling"

\* The goroutines run: a worker that holds the key runs its tick, a worker
\* takes the key that is queued, backoffs elapse, informers report.
SpecRequeue ==
    /\ InitRequeue
    /\ [][NextRequeue]_vars
    /\ ([]<>(~WorkerHolds) \/ []<><<WorkerTicks>>_vars)
    /\ WF_vars(WorkerGets)
    /\ WF_vars(DelayElapsed)
    /\ WF_vars(NotificationDelivered)
    /\ WF_vars(StatefulSetReported)

\* The last tick initialized the placement.
InitTick ==
    /\ tick.ran
    /\ \E i \in 1..Len(tick.adminWrites) :
          tick.adminWrites[i].op = "placementInit"

\* C23: a tick that initializes the placement found the PlacementInitialized
\* condition not True, sets it and returns without a scaling action (no
\* placement add or removal, no StatefulSet write); a tick that finds the
\* condition True issues no placement init; and after a tick that
\* initialized the placement the cluster key is processed again, by a tick
\* that finds the condition True.
C23_InitOnceThenReconciled ==
    /\ [](InitTick =>
            /\ ~tick.pre.cluster.placementInitialized
            /\ cluster.placementInitialized
            /\ tick.statusWrites = <<"PlacementInitialized">>
            /\ PlacementWrites(tick) =
                  <<[op |-> "placementInit", id |-> ClusterName]>>
            /\ tick.stsWrites = <<>>
            /\ tick.acted = "")
    /\ []((tick.ran /\ tick.pre.cluster.placementInitialized) => ~InitTick)
    /\ (InitTick ~> (tick.ran /\ tick.pre.cluster.placementInitialized))

\* C23's case: the tick after the init tick runs, the worker having
\* returned the init tick's error, and goes on to wait for the instances.
C23_Witness ==
    /\ tick.ran
    /\ tick.pre.cluster.placementInitialized
    /\ tick.branch = "waitAvailable"
    /\ ClusterKey \in wq["cluster"].limited

\* The world is converged: the services exist, every isolation group has
\* its set, every set is ready, the placement is initialized with every
\* instance available, and desired = declared replicas = instances in the
\* placement for every set.
ConvergedWorld(c, svcs, ss, pl) ==
    /\ Range(ServiceNames) \subseteq svcs
    /\ Len(ss) = Len(c.isolationGroups)
    /\ c.placementInitialized
    /\ \A inst \in pl : inst.state = "available"
    /\ \A k \in 1..Len(ss) :
          /\ ss[k].replicas = ss[k].ready
          /\ \E i \in 1..Len(c.isolationGroups) :
                /\ c.isolationGroups[i].name = ss[k].group
                /\ c.isolationGroups[i].numInstances = ss[k].replicas
          /\ Cardinality({inst \in pl : inst.group = ss[k].group})
                = ss[k].replicas

PreConvergedWorld ==
    ConvergedWorld(tick.pre.cluster, tick.pre.services, tick.pre.sets,
                   tick.pre.placement)

\* C24: the event "cluster updated and synced" is emitted only by a tick
\* that found as many child sets as isolation groups, every child ready, the
\* placement initialized, every placement instance available, and desired =
\* declared replicas = instances in the placement for every child.
C24_SyncedOnlyWhenConverged ==
    (tick.ran /\ "cluster updated and synced" \in Range(tick.events)) =>
        /\ Len(PreSets) = Len(PreGroups)
        /\ PreAllReady
        /\ tick.pre.cluster.placementInitialized
        /\ \A inst \in tick.pre.placement : inst.state = "available"
        /\ \A k \in 1..Len(PreSets) : PreConverged(k)
        /\ tick.branch = "synced"
        /\ tick.err = "none"

\* C24's case: the event after the user's edits were followed: a set of two
\* pods and a set scaled to none.
C24_Witness ==
    /\ tick.ran
    /\ "cluster updated and synced" \in Range(tick.events)
    /\ \E k, j \in 1..Len(PreSets) :
          PreSets[k].replicas = 2 /\ PreSets[j].replicas = 0

\* C25: a tick on a converged world issues no StatefulSet create or update
\* and no placement write, whether or not one of its calls fails, and leaves
\* the sets and the placement as they were, so that the world is converged
\* again after it and the next tick finds the same.
C25_ConvergedIsFixpoint ==
    (tick.ran /\ PreConvergedWorld) =>
        /\ tick.stsWrites = <<>>
        /\ PlacementWrites(tick) = <<>>
        /\ tick.acted = ""
        /\ sets = tick.pre.sets
        /\ placement = tick.pre.placement
        /\ ConvergedWorld(cluster, services, sets, placement)

\* C25's case: the tick on a converged world with sets of different sizes
\* runs to its end.
C25_Witness ==
    /\ tick.ran
    /\ PreConvergedWorld
    /\ tick.branch = "synced"
    /\ \E k, j \in 1..Len(PreSets) :
          PreSets[k].replicas = 2 /\ PreSets[j].replicas = 1

\* --------------------------------------- the StatefulSet notifications

\* The clusters the cluster lister finds.
CachedClusters == {ClusterName}

\* The controller owner of a StatefulSet: none, the cluster, a cluster that
\* is gone from the cache, or an object of another kind.
Owners ==
    {[kind |-> "none", name |-> ""],
     [kind |-> "m3dbcluster", name |-> ClusterName],
     [kind |-> "m3dbcluster", name |-> "gone"],
     [kind |-> "Deployment", name |-> ClusterName]}

\* What the informer hands to the handlers: the StatefulSet itself; on a
\* delete also a tombstone that wraps it, a tombstone that wraps something
\* else, or something that is neither.
StatefulSetNotifications ==
    {[ev |-> e, form |-> f, owner |-> o, rvChanged |-> c] :
        e \in {"add", "update", "delete"},
        f \in {"object", "tombstone", "tombstoneOther", "other"},
        o \in Owners, c \in BOOLEAN}

\* The notifications the informer produces.
Produced(n) ==
    /\ n.ev # "delete" => n.form = "object"
    /\ n.ev # "update" => n.rvChanged

\* handleStatefulSetUpdate from the owner on: the key enqueueCluster adds,
\* "none" when the handler returns before it.
OwnerKey(owner) ==
    IF owner.kind # "m3dbcluster" THEN "none"
    ELSE IF owner.name \notin CachedClusters THEN "none"
    ELSE "default/" \o owner.name

\* handleStatefulSetUpdate: the object, or the object of its tombstone.
handleStatefulSetUpdate(n) ==
    IF n.form = "object" THEN OwnerKey(n.owner)
    ELSE IF n.form = "tombstone" THEN OwnerKey(n.owner)
    ELSE "none"

\* Mutant: the update handler does not compare resource versions.
StatefulSetHandler_EveryUpdate(n) == handleStatefulSetUpdate(n)

\* AddFunc and DeleteFunc are handleStatefulSetUpdate; UpdateFunc returns
\* when the resource version is unchanged.
StatefulSetHandler(n) ==
    IF n.ev = "update" /\ ~n.rvChanged THEN "none"
    ELSE handleStatefulSetUpdate(n)

\* A StatefulSet changes, is resynced or is deleted.
StatefulSetObserved ==
    \E n \in StatefulSetNotifications :
        /\ Produced(n)
        /\ n \notin notifications
        /\ Cardinality(notifications) < MaxPending
        /\ notifications' = notifications \cup {n}
        /\ UNCHANGED <<worldVars, queueVars, podVars, liveVars, cacheVars,
                       pureVars, listVars>>

\* The informer calls the handler for a notification.
StatefulSetHandled ==
    \E n \in notifications :
      \E k \in {StatefulSetHandler(n)} :
        /\ wq' = IF k = "none" THEN wq
                 ELSE [wq EXCEPT !["cluster"] = QueueAddRateLimited(@, k)]
        /\ last' = [q |-> "statefulSet", key |-> k,
                    result |-> n.ev \o ":" \o n.form]
        /\ notifications' = notifications \ {n}
        /\ UNCHANGED <<runPc, syncedCaches, stopCh, workers>>
        /\ UNCHANGED <<worldVars, podVars, liveVars, cacheVars, pureVars, listVars>>

NextSts ==
    \/ StatefulSetObserved
    \/ StatefulSetHandled
    \/ DelayElapsed

SpecSts == InitQueue /\ [][NextSts]_vars

\* C26: the handler of a StatefulSet add, update or delete notification
\* enqueues the key of the set's controller owner, and nothing else, when the
\* owner is of kind m3dbcluster, the cluster lister finds it and, for an
\* update, the resource version has changed; in every other case it leaves
\* the queues as they are. A deleted set inside a tombstone is treated like
\* the set itself.
C26_StatefulSetEnqueuesOwner ==
    [][\A n \in notifications :
          (notifications' = notifications \ {n}) =>
              IF /\ n.form \in {"object", "tombstone"}
                 /\ n.owner.kind = "m3dbcluster"
                 /\ n.owner.name \in CachedClusters
                 /\ (n.ev = "update" => n.rvChanged)
              THEN wq' = [wq EXCEPT !["cluster"] =
                             QueueAddRateLimited(@, "default/" \o n.owner.name)]
              ELSE wq' = wq]_vars

\* C26's case: a deleted set arrives in a tombstone and its cluster is
\* enqueued.
C26_Witness ==
    /\ last.q = "statefulSet"
    /\ last.result = "delete:tombstone"
    /\ last.key = ClusterKey
    /\ ClusterKey \in wq["cluster"].waiting

\* The Update calls of the last pod tick.
PodUpdateCalls ==
    Cardinality({i \in 1..Len(podTick.calls) : podTick.calls[i] = "update"})

\* C29: a pod tick for a pod that carries the cluster label, whose cluster
\* the lister finds and that has no identity annotation, once it has
\* computed the identity, calls Update for the pod one time; the pod it
\* sends is the pod it read with one more annotation, the identity
\* annotation, whose value is the JSON of the identity computed from the
\* pod and the cluster's sources; every other field and annotation is as it
\* was read. When the identity cannot be computed no update is issued.
C29_AnnotatesOnce ==
    (/\ podTick.ran
     /\ getClusterValue(podTick.pre).found
     /\ getClusterValue(podTick.pre).cluster = ClusterName
     /\ ~HasIdentity(podTick.pre)) =>
        IF podTick.err = "error getting pod ID"
        THEN PodUpdateCalls = 0 /\ pods[podTick.pod] = podTick.pre
        ELSE /\ PodUpdateCalls = 1
             /\ podTick.idStr =
                    IdentityJSON(Identity(podTick.pre, podIdentitySources))
             /\ Len(podTick.updates) <= 1
             /\ podTick.err = "none" <=> Len(podTick.updates) = 1
             /\ podTick.err # "none" => pods[podTick.pod] = podTick.pre
             /\ \A i \in 1..Len(podTick.updates) :
                   \E u \in {podTick.updates[i]} :
                       /\ pods[podTick.pod] = u
                       /\ [u EXCEPT !.annotations = podTick.pre.annotations]
                              = podTick.pre
                       /\ DOMAIN u.annotations =
                              DOMAIN podTick.pre.annotations
                                  \cup {AnnotationKeyPodIdentity}
                       /\ u.annotations[AnnotationKeyPodIdentity]
                              = podTick.idStr
                       /\ \A k \in DOMAIN podTick.pre.annotations :
                              u.annotations[k] = podTick.pre.annotations[k]

\* C29's case: a scheduled pod with an annotation of its template and no
\* identity was annotated with an identity that names its node.
C29_Witness ==
    /\ podTick.ran
    /\ podTick.err = "none"
    /\ ~HasIdentity(podTick.pre)
    /\ podTick.pre.annotations = NewAnnotations
    /\ podTick.pre.nodeName # ""
    /\ "NodeName" \in podIdentitySources
    /\ Len(podTick.updates) = 1
    /\ HasIdentity(pods[podTick.pod])

\* ------------------------------------------------ claims about the closure

\* Worker w of queue q returns from the closure in this step.
ClosureReturns(q, w) ==
    /\ workers[q][w].state = "handling"
    /\ workers'[q][w].state = "idle"

\* C27: when the closure of a dequeued key returns, Done has taken effect
\* once (the key has left the processing set and, if it was added again
\* meanwhile, is back on the queue one time), whether the handler succeeded
\* or failed, and the rate limiter has forgotten the key exactly when the
\* handler succeeded. Every item of the queues is a string key, so the
\* branch for another item is never taken.
C27_DoneOnceForgetOnSuccess ==
    [][\A q \in Queues : \A w \in Workers :
          ClosureReturns(q, w) =>
              \E key \in {workers[q][w].key} :
                  /\ key \in Keys(q)
                  /\ key \in wq[q].processing
                  /\ key \notin wq'[q].processing
                  /\ wq'[q].queue =
                         IF key \in wq[q].dirty
                         THEN Append(wq[q].queue, key) ELSE wq[q].queue
                  /\ wq'[q].dirty = wq[q].dirty
                  /\ last'.result \in {"ok", "error"}
                  /\ wq'[q].limited =
                         IF last'.result = "ok"
                         THEN wq[q].limited \ {key} ELSE wq[q].limited]_vars

\* C27's case: a handler has failed for a key that was added again while it
\* ran; the key is off the processing set, back on the queue and still in
\* the rate limiter's records.
C27_Witness ==
    /\ last.result = "error"
    /\ last.key \notin wq[last.q].processing
    /\ last.key \in wq[last.q].limited
    /\ wq[last.q].queue = <<last.key>>
    /\ \A w \in Workers : workers[last.q][w].state = "idle"

\* ------------------------------------------- the handlers behind a key

\* cache.SplitMetaNamespaceKey splits the keys cache.MetaNamespaceKeyFunc
\* makes, which are the only keys the queues hold.
WellFormed(key) == key \in ListerKeys

\* The pod a pod key names.
PodOfKey(key) == CHOOSE p \in PodNames : "default/" \o p = key

\* Mutant: a key whose object is gone is an error of the handler.
Lookup_MissFails(L, key) ==
    IF ~WellFormed(key) THEN "dropped"
    ELSE IF key \notin L THEN "error"
    ELSE "found"

\* handleClusterEvent, handlePodEvent before the update handler: a key that
\* does not split and a key whose object the lister does not find are
\* logged and the handler returns nil.
Lookup(L, key) ==
    IF ~WellFormed(key) THEN "dropped"
    ELSE IF key \notin L THEN "dropped"
    ELSE "found"

\* processClusterQueueItem's closure: handleClusterEvent and, for a cluster
\* the lister finds, handleClusterUpdate.
WorkerHandlesCluster ==
    \E w \in Workers, ord \in Perms(Len(sets)) :
      \E key \in {workers["cluster"][w].key} :
        \E found \in {Lookup(listed, key)},
           r \in {handleClusterUpdate(cluster, services, sets, placement,
                                      namespaces, "none", ord)} :
          /\ workers["cluster"][w].state = "handling"
          /\ IF found = "found"
             THEN /\ cluster' = r.cluster
                  /\ services' = r.services
                  /\ sets' = r.sets
                  /\ placement' = r.placement
                  /\ namespaces' = r.namespaces
                  /\ tick' = TickRecord(r)
             ELSE UNCHANGED worldVars
          /\ wq' = [wq EXCEPT !["cluster"] =
                       AfterHandler(@, key,
                           \/ found = "dropped"
                           \/ found = "found" /\ r.err = "none")]
          /\ workers' = [workers EXCEPT !["cluster"][w] =
                            [state |-> "idle", key |-> "none"]]
          /\ last' = [q |-> "cluster", key |-> key,
                      result |-> IF found = "dropped" THEN "dropped"
                                 ELSE IF found = "found" /\ r.err = "none"
                                 THEN "ok" ELSE "error"]
          /\ UNCHANGED <<runPc, syncedCaches, stopCh>>
          /\ UNCHANGED <<podVars, liveVars, cacheVars, pureVars, noteVars,
                         listVars>>

\* processPodQueueItem's closure: handlePodEvent and, for a pod the lister
\* finds, handlePodUpdate.
WorkerHandlesPod ==
    \E w \in Workers, f \in PodFailPoints :
      \E key \in {workers["pod"][w].key} :
        \E found \in {Lookup(listed, key)} :
          /\ workers["pod"][w].state = "handling"
          /\ IF found = "found"
             THEN \E r \in {handlePodUpdate(pods[PodOfKey(key)],
                                            podIdentitySources, f)} :
                    /\ pods' = [pods EXCEPT ![PodOfKey(key)] = r.pod]
                    /\ podTick' = [ran |-> TRUE, pod |-> PodOfKey(key),
                                   pre |-> pods[PodOfKey(key)],
                                   idStr |-> r.idStr, calls |-> r.calls,
                                   updates |-> r.updates, err |-> r.err,
                                   warned |-> r.warned]
                    /\ wq' = [wq EXCEPT !["pod"] =
                                 AfterHandler(@, key, r.err = "none")]
                    /\ last' = [q |-> "pod", key |-> key,
                                result |-> IF r.err = "none" THEN "ok"
                                           ELSE "error"]
             ELSE /\ UNCHANGED <<pods, podTick>>
                  /\ wq' = [wq EXCEPT !["pod"] =
                               AfterHandler(@, key, found = "dropped")]
                  /\ last' = [q |-> "pod", key |-> key,
                              result |-> IF found = "dropped" THEN "dropped"
                                         ELSE "error"]
          /\ workers' = [workers EXCEPT !["pod"][w] =
                            [state |-> "idle", key |-> "none"]]
          /\ UNCHANGED podIdentitySources
          /\ UNCHANGED <<runPc, syncedCaches, stopCh>>
          /\ UNCHANGED <<worldVars, liveVars, cacheVars, pureVars, noteVars,
                         listVars>>

\* The user deletes the cluster, or a pod goes: the informer takes the
\* object out of its cache. The delete handlers of both enqueue nothing.
ObjectDeleted ==
    \E key \in listed :
        /\ listed' = listed \ {key}
        /\ last' = NoLast
        /\ UNCHANGED <<runPc, syncedCaches, stopCh, wq, workers>>
        /\ UNCHANGED <<worldVars, podVars, liveVars, cacheVars, pureVars,
                       noteVars>>

NextEvent ==
    \/ Enqueue
    \/ DelayElapsed
    \/ WorkerGets
    \/ WorkerHandlesCluster
    \/ WorkerHandlesPod
    \/ ObjectDeleted

SpecEvent == InitRequeue /\ [][NextEvent]_vars

\* C28: when a worker's closure returns for a key whose cluster or pod the
\* lister no longer finds, the handler has returned nil without entering the
\* update handler: no object and no placement has changed, the rate limiter
\* has forgotten the key, the key has left the processing set, and the
\* worker has added it to nothing; it is back on the queue only if an
\* informer added it while it was processed. Every key of the queues splits,
\* so the return for a malformed key is never taken.
C28_UnrecoverableKeyDropped ==
    [][\A q \in Queues : \A w \in Workers :
          (ClosureReturns(q, w) /\ workers[q][w].key \notin listed) =>
              \E key \in {workers[q][w].key} :
                  /\ last' = [q |-> q, key |-> key, result |-> "dropped"]
                  /\ UNCHANGED <<cluster, services, sets, placement,
                                 namespaces, tick, pods, podTick>>
                  /\ key \notin wq'[q].limited
                  /\ key \notin wq'[q].processing
                  /\ wq'[q].waiting = wq[q].waiting
                  /\ wq'[q].queue =
                         IF key \in wq[q].dirty
                         THEN Append(wq[q].queue, key) ELSE wq[q].queue]_vars

\* C28's case: the cluster was deleted while its key was queued; the worker
\* has dropped the key and nothing is left of it in the queue.
C28_Witness ==
    /\ last = [q |-> "cluster", key |-> ClusterKey, result |-> "dropped"]
    /\ ClusterKey \notin listed
    /\ ClusterKey \notin wq["cluster"].limited
    /\ ClusterKey \notin wq["cluster"].waiting
    /\ wq["cluster"].queue = <<>>
    /\ wq["cluster"].processing = {}

\* --------------------------------- claims about the order of the groups

\* The cluster c with its isolation groups listed in the order p.
Reordered(c, p) ==
    [c EXCEPT !.isolationGroups =
        [i \in 1..Len(c.isolationGroups) |-> c.isolationGroups[p[i]]]]

\* The call that failed in the last tick, "none" if none did.
TickFailedAt == IF tick.err \in FailPoints THEN tick.err ELSE "none"

\* The orders the lister can have had in the last tick.
TickOrders ==
    IF tick.order # <<>> THEN {tick.order} ELSE Perms(Len(tick.pre.sets))

\* The tick r did what the last tick did.
SameActions(r) ==
    /\ r.branch = tick.branch
    /\ r.err = tick.err
    /\ r.svcCreates = tick.svcCreates
    /\ r.stsWrites = tick.stsWrites
    /\ r.adminWrites = tick.adminWrites
    /\ r.statusWrites = tick.statusWrites
    /\ r.sets = sets
    /\ r.placement = placement

GroupNamesOf(c) ==
    {c.isolationGroups[i].name : i \in 1..Len(c.isolationGroups)}

\* The user adds an isolation group to the spec of a cluster.
UserAddsGroup ==
    \E n \in Range(NameOrder) \ GroupNamesOf(cluster) :
        /\ userEdits < MaxEdits
        /\ cluster' = [cluster EXCEPT
                          !.isolationGroups = Append(@, Group(n, 1))]
        /\ userEdits' = userEdits + 1
        /\ tick' = NoTick
        /\ UNCHANGED <<services, sets, placement, namespaces>>
        /\ UNCHANGED <<queueVars, podVars, cacheVars, pureVars, noteVars,
                       listVars>>

\* The user takes an isolation group out of the spec of a cluster.
UserRemovesGroup ==
    \E i \in 1..Len(cluster.isolationGroups) :
        /\ userEdits < MaxEdits
        /\ cluster' = [cluster EXCEPT !.isolationGroups =
                          [k \in 1..(Len(@) - 1) |->
                              IF k < i THEN @[k] ELSE @[k + 1]]]
        /\ userEdits' = userEdits + 1
        /\ tick' = NoTick
        /\ UNCHANGED <<services, sets, placement, namespaces>>
        /\ UNCHANGED <<queueVars, podVars, cacheVars, pureVars, noteVars,
                       listVars>>

NextGroups ==
    \/ TickNoFail
    \/ StatefulSetProgress
    \/ InstanceAvailable
    \/ UserAddsGroup
    \/ UserRemovesGroup

\* A cluster whose list of isolation groups the user edits while the
\* operator reconciles it; no call of a tick fails.
SpecGroups == InitLive /\ [][NextGroups]_vars

\* C31: a tick enters the creation step only with fewer child sets than
\* isolation groups, so that isoGroups[nextID] is an element of the sorted
\* copy; this also after the user has shortened the list of groups.
C31_CreateIndexInBounds ==
    (/\ tick.ran
     /\ Len(tick.pre.cluster.isolationGroups) > 0
     /\ \A k \in 1..Len(tick.pre.sets) : ~SetNotReady(tick.pre.sets[k])
     /\ Len(tick.pre.sets) # Len(tick.pre.cluster.isolationGroups)) =>
        /\ Len(tick.pre.sets) < Len(tick.pre.cluster.isolationGroups)
        /\ tick.err # "panic: index out of range"

\* C32: no two child sets of the cluster carry the same isolation-group
\* label, and once there are as many child sets as isolation groups every
\* group of the spec has exactly one child set.
C32_OneSetPerGroup ==
    /\ \A j, k \in 1..Len(sets) : sets[j].group = sets[k].group => j = k
    /\ Len(sets) = Len(cluster.isolationGroups) =>
           \A g \in GroupNamesOf(cluster) :
               Cardinality({k \in 1..Len(sets) : sets[k].group = g}) = 1

\* ------------------------- claims about the placement and the replicas

\* The instances the placement holds for an isolation group.
PlacedIn(pl, g) == Cardinality(instancesInIsoGroup(pl, g))

\* Every group has at most as many instances in the placement as its set
\* declares replicas, and none while it has no set.
PlacementWithinReplicas(ss, pl) ==
    /\ \A k \in 1..Len(ss) : PlacedIn(pl, ss[k].group) <= ss[k].replicas
    /\ \A inst \in pl : \E k \in 1..Len(ss) : ss[k].group = inst.group

\* C33: from the cold start on, with the placement changed only by the
\* ticks' init, add and remove calls and by instances that become available
\* or leave, every group has at most as many instances in the placement as
\* its set declares replicas; and a tick lowers the declared replicas of a
\* set only when the group's instances in the placement are no more than the
\* group's numInstances.
C33_PlacementWithinReplicas ==
    /\ PlacementWithinReplicas(sets, placement)
    /\ tick.ran =>
          \A i \in 1..Len(tick.stsWrites) :
              \E w \in {tick.stsWrites[i]} :
                  \A k \in 1..Len(tick.pre.sets) :
                      (/\ w.op = "update"
                       /\ tick.pre.sets[k].name = w.name
                       /\ w.replicas < tick.pre.sets[k].replicas) =>
                          /\ HasGroup(tick.pre.cluster.isolationGroups,
                                      w.group)
                          /\ PlacedIn(tick.pre.placement, w.group) <=
                                 GetByName(tick.pre.cluster.isolationGroups,
                                           w.group).numInstances
                          /\ w.replicas = tick.pre.sets[k].replicas - 1

\* C33's case: a tick has lowered the replicas of a set from 2 to 1 after
\* the group's second instance had left the placement.
C33_Witness ==
    /\ tick.ran
    /\ tick.branch = "resized"
    /\ \E k \in 1..Len(sets) :
          /\ tick.acted = sets[k].name
          /\ tick.pre.sets[k].replicas = 2
          /\ sets[k].replicas = 1
          /\ PlacedIn(placement, sets[k].group) = 1

\* ------------------------------------- claims about malformed child sets

\* The errors of the loop body for a child set it cannot scale.
MalformedSetErrors ==
    {"statefulset has no isolation-group label",
     "zone not found in cluster isoGroups",
     "set has unset spec replica"}

\* A child set the loop body can scale.
WellFormedSet(c, set) ==
    /\ set.group # NoLabel
    /\ HasGroup(c.isolationGroups, set.group)
    /\ set.replicas # NilReplicas

\* Somebody edits a child set of the cluster: takes the isolation-group
\* label off, makes it name a group the spec does not have, or leaves the
\* replicas unset.
SetMalformed ==
    \E k \in 1..Len(sets) :
        /\ WellFormedSet(cluster, sets[k])
        /\ \/ sets' = [sets EXCEPT ![k].group = NoLabel]
           \/ \E n \in Range(NameOrder) \ GroupNamesOf(cluster) :
                 sets' = [sets EXCEPT ![k].group = n]
           \/ sets' = [sets EXCEPT ![k].replicas = NilReplicas]
        /\ tick' = NoTick
        /\ UNCHANGED <<cluster, services, placement, namespaces>>
        /\ UNCHANGED <<queueVars, podVars, liveVars, cacheVars, pureVars,
                       noteVars, listVars>>

\* The platform works on the sets whose replicas are set.
WellFormedSetProgress ==
    /\ \A k \in 1..Len(sets) : sets[k].replicas # NilReplicas
    /\ StatefulSetProgress

NextMalformed ==
    \/ TickNoFail
    \/ WellFormedSetProgress
    \/ InstanceAvailable
    \/ InstanceLeft
    \/ UserRescales
    \/ SetMalformed

\* A cluster that is rescaled while child sets of it are edited so that
\* the loop body cannot scale them; no call of a tick fails.
SpecMalformed == InitLive /\ [][NextMalformed]_vars

\* C34: a tick that returns an error of the loop body for a malformed child
\* set (no isolation-group label, a label that names no group of the spec,
\* unset replicas) has issued no placement add, no placement removal and no
\* StatefulSet update: it leaves the sets and the placement as it found
\* them.
C34_MalformedSetErrorBeforeScaling ==
    (tick.ran /\ tick.err \in MalformedSetErrors) =>
        /\ tick.branch = "error"
        /\ tick.stsWrites = <<>>
        /\ \A i \in 1..Len(tick.adminWrites) :
              tick.adminWrites[i].op \notin
                  {"placementAdd", "placementRemove"}
        /\ sets = tick.pre.sets
        /\ placement = tick.pre.placement

\* C34's case: the tick returned the error for a set without the label
\* while another set of the cluster was due for a resize.
C34_Witness ==
    /\ tick.ran
    /\ tick.err = "statefulset has no isolation-group label"
    /\ \E k \in 1..Len(tick.pre.sets) :
          /\ WellFormedSet(tick.pre.cluster, tick.pre.sets[k])
          /\ tick.pre.sets[k].replicas #
                 GetByName(tick.pre.cluster.isolationGroups,
                           tick.pre.sets[k].group).numInstances

\* ------------------------------------------ claims about notifications

\* The informers' notifications and the ticks of one cluster and its pod.
NextNotify ==
    \/ Notified
    \/ ClusterTick
    \/ PodTick
    \/ StatefulSetProgress
    \/ InstanceAvailable

SpecNotify == InitLive /\ [][NextNotify]_vars

\* The platform writes of the last ticks: none is a delete.
NoDeleteIssued ==
    /\ \A i \in 1..Len(tick.stsWrites) :
          tick.stsWrites[i].op \in {"create", "update"}
    /\ \A i \in 1..Len(podTick.calls) :
          podTick.calls[i] \in {"getCluster", "identity", "update"}

\* The step is the handling of a delete notification for a cluster or pod.
DeleteHandled ==
    /\ last' # last
    /\ last'.result = "delete"
    /\ last'.q \in {"cluster", "pod"}

\* C16: the handler of a delete notification for a cluster or for a pod
\* adds no key to either queue and changes no object, placement or
\* namespace; and no tick issues a delete of a cluster, StatefulSet or pod.
C16_DeleteIsNoOp ==
    /\ [][DeleteHandled => /\ wq' = wq
                            /\ UNCHANGED <<worldVars, podVars>>]_vars
    /\ []NoDeleteIssued

C16_Witness ==
    /\ last.result = "delete"
    /\ last.q = "pod"
    /\ wq["pod"].waiting = {}
    /\ tick.ran
    /\ Len(tick.stsWrites) = 1
    /\ podTick.ran
    /\ podTick.updates # <<>>

\* ---------------------------------------------- claims about the cache

InitCache ==
    /\ cluster = [isolationGroups |-> <<>>, namespaces |-> <<>>,
                  replicationFactor |-> 0, numberOfShards |-> 0,
                  placementInitialized |-> FALSE]
    /\ ColdWorld
    /\ InitQueues
    /\ InitPods
    /\ userEdits = 0
    /\ ColdCache
    /\ notifications = {}
    /\ listed = ListerKeys
    /\ decided = NoDecision

NextCache ==
    \/ ClusterCacheTick
    \/ SetCacheTick
    \/ PodCacheTick
    \/ InformerDelivers
    \/ CacheObjectReplaced

SpecCache == InitCache /\ [][NextCache]_vars

\* C12: no tick mutates an object of the informer cache: after a tick the
\* cached cluster, StatefulSet and pod read as they did before it, every
\* write having gone to a copy.
C12_CacheUnchanged ==
    cacheTick.ran => Observed(heap) = cacheTick.pre

\* The writes the claim lists (the sort of the isolation groups, the
\* StatefulSet's replicas, the pod's annotation) do go to copies.
ListedWritesCopied ==
    /\ cacheTick.ran => \A c \in CacheCells \ {"cluster.conditions"} :
                            heap[c] = cacheTick.pre[c]
    /\ cacheTick.ran /\ cacheTick.kind # "cluster" =>
           Observed(heap) = cacheTick.pre
====
